---- MODULE Spec2Model ----
(***************************************************************************)
(* AI process orchestration and lifecycle management of AiGithubHelper:    *)
(* webhook-triggered tasks (review-comment response, general review        *)
(* response, issue resolution, PR review), their temp workspaces, their    *)
(* supervised AI subprocess, the cleanup closure with its triggers, and    *)
(* the host's listener registry for exit / SIGINT / SIGTERM.               *)
(*                                                                         *)
(* The host is a single-threaded event loop: one action is one macrotask   *)
(* (an I/O callback, a timer, a signal delivery) together with the         *)
(* promise continuations and nextTick callbacks it triggers.               *)
(***************************************************************************)
EXTENDS Integers, Sequences, FiniteSets, TLC

VARIABLES tasks, fs, listeners, lastEmit, now, host, config, gem, factory, req, mw,
          cli

vars == <<tasks, fs, listeners, lastEmit, now, host, config, gem, factory, req, mw,
          cli>>

(***************************************************************************)
(* Bounds                                                                  *)
(***************************************************************************)
MaxTasks == 2
MaxClock == 1
\* tokens of standard-error text the attempts of one execute call accumulate
MaxStderr == 3

Tasks == 1..MaxTasks
PayloadIds == {7}
HostEvents == {"exit", "SIGINT", "SIGTERM"}
Signals == {"SIGINT", "SIGTERM"}
Providers == {"claude", "gemini", "auto"}
\* server.ts dispatches pull_request_review and pull_request_review_comment
\* alike to handleReviewComment, so only review-comment tasks are ever started
ReviewKinds == {"comment"}
SupervisedKinds == ReviewKinds \cup {"issue"}

NoPath == [prefix |-> "none", id |-> 0, ts |-> 0]
ConfigWorkingDir == [prefix |-> "config.ai.workingDir", id |-> 0, ts |-> 0]

WorkspacePrefix(kind) ==
    CASE kind = "comment" -> "review-comment-"
      [] kind = "review"  -> "review-"
      [] kind = "issue"   -> "issue-"

\* resolve(tmpdir(), 'ai-github-helper', `${prefix}${id}-${Date.now()}`)
WorkspacePath(kind, id, clock) ==
    [prefix |-> WorkspacePrefix(kind), id |-> id, ts |-> clock]

\* the three steps of a cleanup body, each in a try / catch of its own
Steps == {"kill", "rm", "off"}

\* failures: the steps whose call throws (child.kill, rmSync, process.off);
\* warnings: the failures handed to logger.warn; threw: an exception left
\* the cleanup body
IdleTask ==
    [kind |-> "none", pc |-> "idle", path |-> NoPath, child |-> "none",
     killed |-> FALSE, isCleanedUp |-> FALSE, cleanupMutex |-> FALSE,
     timer |-> "none", killCalls |-> 0, sigterms |-> 0, rmCalls |-> 0,
     offCalls |-> 0, response |-> 0,
     failures |-> {}, warnings |-> {}, threw |-> FALSE]

\* one tryModel call: the spawned child, the closure's timeout, resolved and
\* stderrBuffer, the promise (settled), what the grace window saw, the code
\* handed to the 'exit' listener, who listens for the 'close' that follows and
\* the stderr text the caller's data listener handed to the logger
NoAttempt ==
    [proc |-> "none", model |-> "none", prompt |-> "none", cwd |-> NoPath,
     timer |-> "none", resolved |-> FALSE, settled |-> "pending",
     settledBy |-> "none", stderrBuffer |-> <<>>, killCalls |-> 0,
     sigterms |-> 0, windowOver |-> FALSE, windowLen |-> 0,
     atWindowEnd |-> "none", exitCode |-> "none", closeTo |-> "none",
     logged |-> <<>>]

\* one GeminiProvider.execute call
GemIdle ==
    [pc |-> "idle", prompt |-> "none", workingDir |-> NoPath, result |-> 0,
     ops |-> <<>>, att |-> [a \in 1..2 |-> NoAttempt]]

\* one AIProviderFactory.create call
FactoryIdle == [pc |-> "idle"]

\* one webhook request on its way to a supervised AI subprocess
ReqIdle == [pc |-> "idle"]

\* the signature middleware of the /webhook route
MwIdle == [pc |-> "idle"]

\* one ClaudeCodeCLI.execute call
CliIdle == [pc |-> "idle"]

(***************************************************************************)
(* The world a synchronous callback works on: the tasks' closures, the     *)
(* file system under the temp base, and the host's listener registry.      *)
(***************************************************************************)
World == [tasks |-> tasks, fs |-> fs, listeners |-> listeners]

\* process.on(event, cleanup) for the three host events
AddListeners(reg, t) == [ev \in HostEvents |-> Append(reg[ev], t)]

\* index of the most recently added instance of listener t, 0 if absent
LastIndexOf(seq, t) ==
    LET hits == {i \in 1..Len(seq) : seq[i] = t}
    IN IF hits = {} THEN 0 ELSE CHOOSE i \in hits : \A j \in hits : j <= i

\* process.off(event, cleanup): removes the most recently added instance
RemoveListener(seq, t) ==
    LET i == LastIndexOf(seq, t)
    IN IF i = 0 THEN seq
       ELSE [j \in 1..(Len(seq) - 1) |-> IF j < i THEN seq[j] ELSE seq[j + 1]]

\* a cleanup without its kill step
KillChildSkipped(w, t) == w

\* if (child && !child.killed) child.kill('SIGTERM'): the signal reaches the
\* child, and child.killed becomes true, only while the child has not exited
KillChild(w, t) ==
    LET k == w.tasks[t]
    IN IF k.child # "none" /\ ~k.killed
       THEN [w EXCEPT !.tasks[t].killCalls = @ + 1,
                      !.tasks[t].sigterms = IF k.child = "running" THEN @ + 1 ELSE @,
                      !.tasks[t].killed = (k.child = "running")]
       ELSE w

\* a removal that leaves the directory in place
RemoveWorkspaceSkipped(w, t) ==
    [w EXCEPT !.tasks[t].rmCalls = @ + 1]

\* rmSync(tempWorkDir, { recursive: true, force: true })
RemoveWorkspace(w, t) ==
    [w EXCEPT !.fs = @ \ {w.tasks[t].path},
              !.tasks[t].rmCalls = @ + 1]

\* a deregistration that forgets the two signal listeners
DeregisterExitOnly(w, t) ==
    [w EXCEPT !.listeners["exit"] = RemoveListener(@, t),
              !.tasks[t].offCalls = @ + 1]

\* process.off('exit' | 'SIGINT' | 'SIGTERM', cleanup)
Deregister(w, t) ==
    [w EXCEPT !.listeners = [ev \in HostEvents |-> RemoveListener(w.listeners[ev], t)],
              !.tasks[t].offCalls = @ + 1]

\* the guard of the review handlers' cleanup: if (cleanupMutex || isCleanedUp) return
AlreadyCleaned(k) == k.cleanupMutex \/ k.isCleanedUp

\* the guard of the issue handler's cleanup: if (isCleanedUp) return
IssueAlreadyCleaned(k) == k.isCleanedUp

\* a cleanup that forgets to record that it ran
MarkCleanedForgotten(w, t) == w

\* a cleanup that cancels the timeout timer as well
MarkCleanedClearsTimer(w, t) ==
    [w EXCEPT !.tasks[t].isCleanedUp = TRUE, !.tasks[t].timer = "cleared"]

\* isCleanedUp = true
MarkCleaned(w, t) == [w EXCEPT !.tasks[t].isCleanedUp = TRUE]

\* a catch block that rethrows instead of logging
WarnRethrown(w, t, step) == [w EXCEPT !.tasks[t].threw = TRUE]

\* catch (e) { this.logger.warn(`Failed to ...: ${e}`) }
Warn(w, t, step) == [w EXCEPT !.tasks[t].warnings = @ \cup {step}]

\* try { if (child && !child.killed) child.kill('SIGTERM') } catch (e) { warn }
KillStep(w, t) ==
    LET k == w.tasks[t]
    IN IF k.threw THEN w
       ELSE IF "kill" \in k.failures /\ k.child # "none" /\ ~k.killed
            THEN Warn([w EXCEPT !.tasks[t].killCalls = @ + 1], t, "kill")
       ELSE KillChild(w, t)

\* try { rmSync(tempWorkDir, ...); logger.info(...) } catch (e) { warn }
RemoveStep(w, t) ==
    LET k == w.tasks[t]
    IN IF k.threw THEN w
       ELSE IF "rm" \in k.failures
            THEN Warn([w EXCEPT !.tasks[t].rmCalls = @ + 1], t, "rm")
       ELSE RemoveWorkspace(w, t)

\* try { process.off(...) x 3 } catch (e) { warn }: the first call throws
DeregisterStep(w, t) ==
    LET k == w.tasks[t]
    IN IF k.threw THEN w
       ELSE IF "off" \in k.failures
            THEN Warn([w EXCEPT !.tasks[t].offCalls = @ + 1], t, "off")
       ELSE Deregister(w, t)

(***************************************************************************)
(* cleanup closures.  reenter: the logging collaborator called in the      *)
(* middle of the body calls cleanup again (a re-entrant invocation).       *)
(***************************************************************************)
RECURSIVE ReviewCleanup(_, _, _)
ReviewCleanup(w, t, reenter) ==
    IF AlreadyCleaned(w.tasks[t]) THEN w
    ELSE LET wm == [w EXCEPT !.tasks[t].cleanupMutex = TRUE]
             w1 == MarkCleaned(wm, t)
             w2 == KillStep(w1, t)
             w3 == RemoveStep(w2, t)
             w4 == IF reenter THEN ReviewCleanup(w3, t, FALSE) ELSE w3
             w5 == DeregisterStep(w4, t)
             \* try { if (isCleanedUp) return; ... } finally { cleanupMutex = false }
             wf == IF wm.tasks[t].isCleanedUp THEN wm ELSE w5
         IN [wf EXCEPT !.tasks[t].cleanupMutex = FALSE]

RECURSIVE IssueCleanup(_, _, _)
IssueCleanup(w, t, reenter) ==
    IF IssueAlreadyCleaned(w.tasks[t]) THEN w
    ELSE LET w1 == MarkCleaned(w, t)
             w2 == KillStep(w1, t)
             w3 == RemoveStep(w2, t)
             w4 == IF reenter THEN IssueCleanup(w3, t, FALSE) ELSE w3
         IN DeregisterStep(w4, t)

Cleanup(w, t, reenter) ==
    IF w.tasks[t].kind = "issue" THEN IssueCleanup(w, t, reenter)
    ELSE ReviewCleanup(w, t, reenter)

\* calling the listeners of one emit, in registration order
RECURSIVE CallListeners(_, _, _)
CallListeners(w, snapshot, reenter) ==
    IF snapshot = <<>> THEN w
    ELSE CallListeners(Cleanup(w, Head(snapshot), reenter), Tail(snapshot), reenter)

\* a listener loop that walks the live registry by index
RECURSIVE CallLive(_, _, _, _)
CallLive(w, ev, i, reenter) ==
    IF i > Len(w.listeners[ev]) THEN w
    ELSE CallLive(Cleanup(w, w.listeners[ev][i], reenter), ev, i + 1, reenter)

EmitLive(w, ev, reenter) == CallLive(w, ev, 1, reenter)

\* process.emit(ev): the listeners registered when the emit starts are all
\* called, whatever the listeners remove meanwhile
Emit(w, ev, reenter) == CallListeners(w, w.listeners[ev], reenter)

(***************************************************************************)
(* Provider selection (AIProviderFactory.create)                           *)
(***************************************************************************)
Available(p, availClaude, availGemini) ==
    IF p = "claude" THEN availClaude ELSE availGemini

GetFallbackProvider(requested, availClaude, availGemini) ==
    LET other == IF requested = "claude" THEN "gemini" ELSE "claude"
    IN IF Available(other, availClaude, availGemini) THEN other ELSE "none"

SelectBestAvailableProvider(availClaude, availGemini) ==
    IF availClaude THEN "claude"
    ELSE IF availGemini THEN "gemini"
    ELSE "none"

\* "none" stands for the thrown error
Create(provider, fallbackEnabled, availClaude, availGemini) ==
    IF provider = "auto" THEN SelectBestAvailableProvider(availClaude, availGemini)
    ELSE IF fallbackEnabled /\ ~Available(provider, availClaude, availGemini)
         THEN GetFallbackProvider(provider, availClaude, availGemini)
         ELSE provider

\* process.env.AI_FALLBACK_ENABLED === 'true' || true
DefaultFallbackEnabled(envValue) == (envValue = "true") \/ TRUE

\* defaultConfig.ai with AI_PROVIDER unset
DefaultConfig(envFallback) ==
    [preferredProvider |-> "claude",
     fallbackEnabled |-> DefaultFallbackEnabled(envFallback)]

(***************************************************************************)
(* Handler steps                                                           *)
(***************************************************************************)
\* the catch block of a handler: the review handlers remove the workspace
\* and rethrow (their caller answers 500); the issue and PR handlers answer
\* 500 and remove nothing
FailTask(w, t) ==
    LET k == w.tasks[t]
    IN IF k.kind \in ReviewKinds
       THEN [w EXCEPT !.fs = @ \ {k.path},
                      !.tasks[t].rmCalls = @ + 1,
                      !.tasks[t].pc = "failed",
                      !.tasks[t].response = 500]
       ELSE [w EXCEPT !.tasks[t].pc = "failed",
                      !.tasks[t].response = 500]

\* what a handler does with the handle execute returned: the review and issue
\* handlers arm the 10-minute timer and register the host listeners; the PR
\* handler only attaches logging listeners; all answer 200
Supervise(w, t, childState) ==
    LET k == w.tasks[t]
    IN IF k.kind \in SupervisedKinds
       THEN [w EXCEPT !.tasks[t].child = childState,
                      !.tasks[t].timer = "armed",
                      !.tasks[t].pc = "supervised",
                      !.tasks[t].response = 200,
                      !.listeners = AddListeners(w.listeners, t)]
       ELSE [w EXCEPT !.tasks[t].child = childState,
                      !.tasks[t].pc = "started",
                      !.tasks[t].response = 200]

\* child.on('error'): clearTimeout(timeout); cleanup()  (PR handler: log only)
OnChildError(w, t, reenter) ==
    LET k == w.tasks[t]
        w1 == [w EXCEPT !.tasks[t].child = "errored",
                        !.tasks[t].timer = IF @ = "armed" THEN "cleared" ELSE @]
    IN IF k.kind \in SupervisedKinds THEN Cleanup(w1, t, reenter) ELSE w1

\* a close listener that leaves the timer armed
OnChildCloseTimerKept(w, t, reenter) ==
    LET w1 == [w EXCEPT !.tasks[t].child = "closed"]
    IN IF w.tasks[t].kind \in SupervisedKinds THEN Cleanup(w1, t, reenter) ELSE w1

\* child.on('close'): clearTimeout(timeout); cleanup()  (PR handler: log only)
OnChildClose(w, t, reenter) ==
    LET k == w.tasks[t]
        w1 == [w EXCEPT !.tasks[t].child = "closed",
                        !.tasks[t].timer = IF @ = "armed" THEN "cleared" ELSE @]
    IN IF k.kind \in SupervisedKinds THEN Cleanup(w1, t, reenter) ELSE w1

\* ClaudeProvider.execute: spawn and return the handle at once; a failed spawn
\* is reported by an 'error' event on the next tick, after the handler has
\* attached its listeners and answered
ClaudeExecute(w, t, spawnOk, reenter) ==
    IF spawnOk THEN Supervise(w, t, "running")
    ELSE OnChildError(Supervise(w, t, "running"), t, reenter)

Commit(w) ==
    /\ tasks' = w.tasks
    /\ fs' = w.fs
    /\ listeners' = w.listeners

\* Date.now() never goes back
ClockReadings == now..MaxClock

MayStart(t) ==
    /\ host = "up"
    /\ tasks[t].pc = "idle"
    /\ IF t = 1 THEN TRUE ELSE tasks[t - 1].pc # "idle"

\* processReviewComment / processGeneralReview up to the spawn of gh clone
StartReview(t) ==
    /\ MayStart(t)
    /\ \E kind \in ReviewKinds, id \in PayloadIds, clock \in ClockReadings,
          repoValid \in BOOLEAN :
         LET p  == WorkspacePath(kind, id, clock)
             w1 == [World EXCEPT !.tasks[t].kind = kind,
                                 !.tasks[t].path = p,
                                 !.tasks[t].pc = "clone",
                                 !.fs = @ \cup {p}]
         IN /\ Commit(IF repoValid THEN w1 ELSE FailTask(w1, t))
            /\ now' = clock
    /\ UNCHANGED <<lastEmit, host, config, gem, factory, req, mw, cli>>

\* handleIssue up to the spawn of gh clone
StartIssue(t) ==
    /\ MayStart(t)
    /\ \E id \in PayloadIds, clock \in ClockReadings :
         LET p == WorkspacePath("issue", id, clock)
         IN /\ Commit([World EXCEPT !.tasks[t].kind = "issue",
                                    !.tasks[t].path = p,
                                    !.tasks[t].pc = "clone",
                                    !.fs = @ \cup {p}])
            /\ now' = clock
    /\ UNCHANGED <<lastEmit, host, config, gem, factory, req, mw, cli>>

\* handlePullRequest up to AIProviderFactory.create
StartPullRequest(t) ==
    /\ MayStart(t)
    /\ \E namesValid \in BOOLEAN, templateReadable \in BOOLEAN :
         LET w1 == [World EXCEPT !.tasks[t].kind = "pr",
                                 !.tasks[t].path = ConfigWorkingDir]
         IN Commit(IF ~namesValid
                   THEN [w1 EXCEPT !.tasks[t].pc = "rejected",
                                   !.tasks[t].response = 400]
                   ELSE IF ~templateReadable THEN FailTask(w1, t)
                   ELSE [w1 EXCEPT !.tasks[t].pc = "resolve"])
    /\ UNCHANGED <<lastEmit, now, host, config, gem, factory, req, mw, cli>>

\* close / error of gh clone.  The subprocess took at least a millisecond from
\* spawn to close, so the clock is past the reading in the workspace's name
CloneDone(t) ==
    /\ host = "up"
    /\ tasks[t].pc = "clone"
    /\ \E ok \in BOOLEAN, branchValid \in BOOLEAN :
         Commit(IF ~ok THEN FailTask(World, t)
                ELSE IF tasks[t].kind = "issue"
                     THEN [World EXCEPT !.tasks[t].pc = "resolve"]
                ELSE IF ~branchValid THEN FailTask(World, t)
                ELSE [World EXCEPT !.tasks[t].pc = "checkout"])
    /\ now' = IF now > tasks[t].path.ts THEN now ELSE tasks[t].path.ts + 1
    /\ UNCHANGED <<lastEmit, host, config, gem, factory, req, mw, cli>>

\* close / error of git checkout, then the prompt template is loaded
CheckoutDone(t) ==
    /\ host = "up"
    /\ tasks[t].pc = "checkout"
    /\ \E ok \in BOOLEAN, templateReadable \in BOOLEAN :
         Commit(IF ok /\ templateReadable
                THEN [World EXCEPT !.tasks[t].pc = "resolve"]
                ELSE FailTask(World, t))
    /\ UNCHANGED <<lastEmit, now, host, config, gem, factory, req, mw, cli>>

\* the availability probes have answered: AIProviderFactory.create returns or
\* throws, and the chosen provider's execute is called
ResolveDone(t) ==
    /\ host = "up"
    /\ tasks[t].pc = "resolve"
    /\ \E availClaude \in BOOLEAN, availGemini \in BOOLEAN,
          spawnOk \in BOOLEAN, reenter \in BOOLEAN :
         LET p == Create(config.preferredProvider, config.fallbackEnabled,
                         availClaude, availGemini)
         IN Commit(CASE p = "none"   -> FailTask(World, t)
                     [] p = "claude" -> ClaudeExecute(World, t, spawnOk, reenter)
                     [] p = "gemini" -> [World EXCEPT !.tasks[t].pc = "execute"])
    /\ UNCHANGED <<lastEmit, now, host, config, gem, factory, req, mw, cli>>

\* GeminiProvider.execute resolves with a handle
ExecuteReturn(t) ==
    /\ host = "up"
    /\ tasks[t].pc = "execute"
    /\ Commit(Supervise(World, t, "running"))
    /\ UNCHANGED <<lastEmit, now, host, config, gem, factory, req, mw, cli>>

\* GeminiProvider.execute throws: both models failed
ExecuteThrow(t) ==
    /\ host = "up"
    /\ tasks[t].pc = "execute"
    /\ Commit(FailTask(World, t))
    /\ UNCHANGED <<lastEmit, now, host, config, gem, factory, req, mw, cli>>

\* GeminiProvider.tryModel: the subprocess exits with code 0 inside the grace
\* window; the grace timer is cleared and the promise is never settled
ExecuteNeverSettles(t) ==
    /\ host = "up"
    /\ tasks[t].pc = "execute"
    /\ Commit([World EXCEPT !.tasks[t].pc = "hung"])
    /\ UNCHANGED <<lastEmit, now, host, config, gem, factory, req, mw, cli>>

\* the 10-minute timer fires: cleanup()
TimeoutFire(t) ==
    /\ host = "up"
    /\ tasks[t].timer = "armed"
    /\ \E reenter \in BOOLEAN :
         Commit(Cleanup([World EXCEPT !.tasks[t].timer = "fired"], t, reenter))
    /\ UNCHANGED <<lastEmit, now, host, config, gem, factory, req, mw, cli>>

\* 'close' of the AI subprocess
ChildClose(t) ==
    /\ host = "up"
    /\ tasks[t].child \in {"running", "errored"}
    /\ \E reenter \in BOOLEAN : Commit(OnChildClose(World, t, reenter))
    /\ UNCHANGED <<lastEmit, now, host, config, gem, factory, req, mw, cli>>

\* SIGINT / SIGTERM reaches the host: its listeners run; with no listener
\* registered the default action terminates the host without an exit event
Signal(sig) ==
    /\ host = "up"
    /\ IF listeners[sig] = <<>>
       THEN /\ host' = "down"
            /\ UNCHANGED <<tasks, fs, listeners, lastEmit>>
       ELSE /\ lastEmit' = listeners[sig]
            /\ host' = host
            /\ \E reenter \in BOOLEAN : Commit(Emit(World, sig, reenter))
    /\ UNCHANGED <<now, config, gem, factory, req, mw, cli>>

\* the host exits (process.exit, uncaught exception): 'exit' listeners run
HostExit ==
    /\ host = "up"
    /\ lastEmit' = listeners["exit"]
    /\ host' = "down"
    /\ \E reenter \in BOOLEAN : Commit(Emit(World, "exit", reenter))
    /\ UNCHANGED <<now, config, gem, factory, req, mw, cli>>

Init ==
    /\ tasks = [t \in Tasks |-> IdleTask]
    /\ fs = {ConfigWorkingDir}
    /\ listeners = [ev \in HostEvents |-> <<>>]
    /\ lastEmit = <<>>
    /\ now = 0
    /\ host = "up"
    /\ config \in {DefaultConfig(fb) : fb \in {"true", "false", "unset"}}
    /\ gem = GemIdle
    /\ factory = FactoryIdle
    /\ req = ReqIdle
    /\ mw = MwIdle
    /\ cli = CliIdle

Next ==
    \/ \E t \in Tasks : StartReview(t)
    \/ \E t \in Tasks : StartIssue(t)
    \/ \E t \in Tasks : StartPullRequest(t)
    \/ \E t \in Tasks : CloneDone(t)
    \/ \E t \in Tasks : CheckoutDone(t)
    \/ \E t \in Tasks : ResolveDone(t)
    \/ \E t \in Tasks : ExecuteReturn(t)
    \/ \E t \in Tasks : ExecuteThrow(t)
    \/ \E t \in Tasks : ExecuteNeverSettles(t)
    \/ \E t \in Tasks : TimeoutFire(t)
    \/ \E t \in Tasks : ChildClose(t)
    \/ \E sig \in Signals : Signal(sig)
    \/ HostExit

Spec == Init /\ [][Next]_vars

(***************************************************************************)
(* GeminiProvider: execute tries the primary model and, when that attempt  *)
(* is rejected, the fallback model.  Text is a sequence of tokens, += is   *)
(* concatenation and includes is a search for a contiguous subsequence.    *)
(***************************************************************************)
PrimaryModel == "gemini-2.5-pro"
FallbackModel == "gemini-2.5-flash"
ModelOf(a) == IF a = 1 THEN PrimaryModel ELSE FallbackModel

FailureSignatures ==
    {<<"Quota exceeded">>, <<"status ", "429">>, <<"rateLimitExceeded">>,
     <<"NOT_FOUND">>, <<"API Error">>}

\* chunks the subprocess may write to stderr
StderrChunks == {<<"status ">>, <<"429">>, <<"status ", "429">>, <<"API Error">>}

\* exit codes handed to the 'exit' listener; "null" when a signal ended it
ExitCodes == {"0", "1", "null"}

\* the two callers' arguments: the PR handler and the review-comment handler
ExecuteCalls ==
    {[prompt |-> "pr-review prompt", workingDir |-> ConfigWorkingDir],
     [prompt |-> "review-comment prompt",
      workingDir |-> WorkspacePath("comment", 7, 0)]}

\* String.prototype.includes
Includes(buf, pat) ==
    \E i \in 0..(Len(buf) - Len(pat)) : SubSeq(buf, i + 1, i + Len(pat)) = pat

HasFailureSignature(buf) == \E sig \in FailureSignatures : Includes(buf, sig)

\* a clearTimeout that leaves the timer armed
ClearTimeoutSkipped(tm) == tm

ClearTimeout(tm) == IF tm = "armed" THEN "cleared" ELSE tm

GemKillSkipped(g, a) == g

\* a kill call that delivers no signal
GemKillUndelivered(g, a) ==
    [g EXCEPT !.att[a].killCalls = @ + 1,
              !.ops = Append(@, <<"kill", a>>)]

\* child.kill('SIGTERM'): delivered only to a child that is still running
GemKill(g, a) ==
    [g EXCEPT !.att[a].killCalls = @ + 1,
              !.att[a].sigterms = IF g.att[a].proc = "running" THEN @ + 1 ELSE @,
              !.ops = Append(@, <<"kill", a>>)]

StderrUnsettledAlways(att) == TRUE

\* if (!resolved) of the stderr listener
StderrUnsettled(att) == ~att.resolved

\* resolve(child): execute returns the handle of attempt a
GemResolve(g, a) ==
    IF g.att[a].settled # "pending" THEN g
    ELSE [g EXCEPT !.att[a].settled = "resolved", !.pc = "returned", !.result = a]

RECURSIVE TryModel(_, _, _)

\* reject(...): execute's catch runs; after the primary the fallback model is
\* tried, after the fallback execute throws
GemReject(g, a, oks) ==
    IF g.att[a].settled # "pending" THEN g
    ELSE LET g1 == [g EXCEPT !.att[a].settled = "rejected"]
         IN IF a = 1 THEN TryModel(g1, 2, oks) ELSE [g1 EXCEPT !.pc = "failed"]

\* an 'error' listener that settles nothing
GemOnErrorIgnored(g, a, oks) ==
    [g EXCEPT !.att[a].proc = "errored", !.att[a].timer = ClearTimeout(@)]

\* child.on('error')
GemOnError(g, a, oks) ==
    LET g1 == [g EXCEPT !.att[a].proc = "errored",
                        !.att[a].timer = ClearTimeout(@)]
    IN IF g1.att[a].resolved THEN g1
       ELSE GemReject([g1 EXCEPT !.att[a].resolved = TRUE,
                                 !.att[a].settledBy = "error"], a, oks)

\* tryModel: spawn, arm the 5 s timer, attach the listeners, write the prompt;
\* a failed spawn is reported by 'error' on the next tick
TryModel(g, a, oks) ==
    LET g1 == [g EXCEPT !.pc = IF a = 1 THEN "primary" ELSE "fallback",
                        !.ops = Append(@, <<"spawn", a>>),
                        !.att[a] = [NoAttempt EXCEPT !.proc = "running",
                                                     !.model = ModelOf(a),
                                                     !.prompt = g.prompt,
                                                     !.cwd = g.workingDir,
                                                     !.timer = "armed"]]
    IN IF oks[a] THEN g1 ELSE GemOnError(g1, a, oks)

\* the caller attaches its 'close' and 'data' listeners in the continuation
\* of the await that received the handle
CloseListener(g, a) == IF g.pc = "returned" /\ g.result = a THEN "caller" ELSE "nobody"

\* child.stderr.on('data') of tryModel, then the caller's
\* child.stderr.on('data') if it is attached
GemOnStderr(g, a, chunk, oks) ==
    LET g1 == [g EXCEPT !.att[a].stderrBuffer = @ \o chunk,
                        !.att[a].logged = IF CloseListener(g, a) = "caller"
                                          THEN @ \o chunk ELSE @]
    IN IF ~HasFailureSignature(g1.att[a].stderrBuffer) THEN g1
       ELSE LET g2 == [g1 EXCEPT !.att[a].timer = ClearTimeout(@)]
            IN IF ~StderrUnsettled(g2.att[a]) THEN g2
               ELSE GemReject(GemKill([g2 EXCEPT !.att[a].resolved = TRUE,
                                                 !.att[a].settledBy = "stderr"], a),
                              a, oks)

\* child.on('exit'); 'close' follows once the stdio streams have ended
GemOnExit(g, a, code, oks) ==
    LET g1 == [g EXCEPT !.att[a].proc = "exited",
                        !.att[a].exitCode = code,
                        !.att[a].closeTo = CloseListener(g, a),
                        !.att[a].timer = ClearTimeout(@)]
    IN IF ~g1.att[a].resolved /\ code # "0"
       THEN GemReject([g1 EXCEPT !.att[a].resolved = TRUE,
                                 !.att[a].settledBy = "exit"], a, oks)
       ELSE g1

\* 5000 ms after the spawn: the timer's callback runs unless it was cleared
GemOnGrace(g, a) ==
    LET g1 == [g EXCEPT !.att[a].windowOver = TRUE,
                        !.att[a].windowLen = Len(g.att[a].stderrBuffer),
                        !.att[a].atWindowEnd = g.att[a].proc]
    IN IF g.att[a].timer # "armed" THEN g1
       ELSE LET g2 == [g1 EXCEPT !.att[a].timer = "fired"]
            IN IF g2.att[a].resolved THEN g2
               ELSE GemResolve([g2 EXCEPT !.att[a].resolved = TRUE,
                                          !.att[a].settledBy = "timer"], a)

SpawnOutcomes == [1..2 -> BOOLEAN]

StderrRead == Len(gem.att[1].stderrBuffer) + Len(gem.att[2].stderrBuffer)

GemExecute ==
    /\ gem.pc = "idle"
    /\ \E call \in ExecuteCalls, oks \in SpawnOutcomes :
         gem' = TryModel([gem EXCEPT !.prompt = call.prompt,
                                     !.workingDir = call.workingDir], 1, oks)
    /\ UNCHANGED <<tasks, fs, listeners, lastEmit, now, host, config, factory, req, mw, cli>>

GemStderr(a) ==
    /\ gem.att[a].proc \in {"running", "exited"}
    /\ \E chunk \in StderrChunks, fallbackOk \in BOOLEAN :
         /\ StderrRead + Len(chunk) <= MaxStderr
         /\ gem' = GemOnStderr(gem, a, chunk, [i \in 1..2 |-> fallbackOk])
    /\ UNCHANGED <<tasks, fs, listeners, lastEmit, now, host, config, factory, req, mw, cli>>

GemExit(a) ==
    /\ gem.att[a].proc = "running"
    /\ \E code \in ExitCodes, fallbackOk \in BOOLEAN :
         gem' = GemOnExit(gem, a, code, [i \in 1..2 |-> fallbackOk])
    /\ UNCHANGED <<tasks, fs, listeners, lastEmit, now, host, config, factory, req, mw, cli>>

\* the fallback is spawned after the primary, so its window ends later
GemGrace(a) ==
    /\ gem.att[a].proc # "none"
    /\ ~gem.att[a].windowOver
    /\ a = 2 => gem.att[1].windowOver
    /\ gem' = GemOnGrace(gem, a)
    /\ UNCHANGED <<tasks, fs, listeners, lastEmit, now, host, config, factory, req, mw, cli>>

NextGemini ==
    \/ GemExecute
    \/ \E a \in 1..2 : GemStderr(a)
    \/ \E a \in 1..2 : GemExit(a)
    \/ \E a \in 1..2 : GemGrace(a)

SpecGemini == Init /\ [][NextGemini]_vars

(***************************************************************************)
(* Properties of the task lifecycle                                        *)
(***************************************************************************)
Supervised(t) == tasks[t].kind \in SupervisedKinds /\ tasks[t].pc = "supervised"

RegisteredIn(reg, t) ==
    \E ev \in HostEvents : \E i \in 1..Len(reg[ev]) : reg[ev][i] = t

CalledIn(seq, t) == \E i \in 1..Len(seq) : seq[i] = t

\* an awaited subprocess of the task (gh clone, git checkout, a version probe,
\* the Gemini subprocess inside its grace window) is running
AwaitingSubprocess(t) == tasks[t].pc \in {"clone", "checkout", "resolve", "execute"}

\* C1: for every task, whatever cleanup triggers fire and in whatever order
\* (timer, close, error, exit, SIGINT, SIGTERM, a re-entrant call), the
\* cleanup body runs exactly once: at most one kill attempt, exactly one
\* workspace removal and one listener deregistration once cleanup has run,
\* none before, and the guard is released between invocations.
C1_CleanupBodyRunsOnce ==
    \A t \in Tasks :
        LET k == tasks[t]
        IN /\ k.killCalls <= 1 /\ k.rmCalls <= 1 /\ k.offCalls <= 1
           /\ ~k.cleanupMutex
           /\ Supervised(t) =>
                 /\ k.isCleanedUp => k.rmCalls = 1 /\ k.offCalls = 1
                 /\ ~k.isCleanedUp => k.killCalls = 0 /\ k.rmCalls = 0 /\ k.offCalls = 0
                 /\ (k.timer = "fired" \/ k.child \in {"errored", "closed"}) => k.isCleanedUp

\* three triggers have fired for one task: a host event, the timer, close
C1_Witness ==
    \E t \in Tasks :
        /\ Supervised(t) /\ CalledIn(lastEmit, t)
        /\ tasks[t].timer = "fired" /\ tasks[t].child = "closed"
        /\ tasks[t].killCalls = 1 /\ tasks[t].rmCalls = 1 /\ tasks[t].offCalls = 1

\* C2 (as claimed): every task whose AI subprocess was spawned has been
\* cleaned up or has a pending timeout timer that will clean it up.
C2_SpawnedTaskIsCleanedOrTimed ==
    \A t \in Tasks :
        tasks[t].child # "none" => tasks[t].isCleanedUp \/ tasks[t].timer = "armed"

C7_ShutdownLeavesNothingBehind ==
    host = "down" =>
        \A t \in Tasks :
            tasks[t].kind \in SupervisedKinds =>
                /\ tasks[t].path \notin fs
                /\ ~AwaitingSubprocess(t)
                /\ tasks[t].child = "running" => tasks[t].sigterms >= 1

C9_WorkspaceRemovedBeforeFailureReported ==
    [][\A t \in Tasks :
          (tasks[t].response # 500 /\ tasks'[t].response = 500
             /\ tasks'[t].kind \in SupervisedKinds) =>
                tasks'[t].path \notin fs']_vars

\* a task is outstanding from its start until it has failed, been rejected or
\* been cleaned up
Outstanding(t) ==
    /\ tasks[t].kind # "none"
    /\ tasks[t].pc \notin {"failed", "rejected"}
    /\ ~tasks[t].isCleanedUp

\* C10 (as claimed): no two outstanding tasks own the same workspace path.
C10_OutstandingTasksOwnDistinctPaths ==
    \A t1 \in Tasks, t2 \in Tasks :
        (t1 # t2 /\ Outstanding(t1) /\ Outstanding(t2)) =>
            tasks[t1].path # tasks[t2].path

(***************************************************************************)
(* Properties of GeminiProvider.execute                                    *)
(***************************************************************************)
Status429 == <<"status ", "429">>

\* the quota / rate-limit signatures: quota exceeded, HTTP 429, rate limit
QuotaSignatures == {<<"Quota exceeded">>, Status429, <<"rateLimitExceeded">>}

\* the stderr text of attempt a that arrived inside its grace window
InWindow(a) ==
    IF gem.att[a].windowOver
    THEN SubSeq(gem.att[a].stderrBuffer, 1, gem.att[a].windowLen)
    ELSE gem.att[a].stderrBuffer

Spawned(a) == gem.att[a].proc # "none"

KillPrecedesFallbackSpawn ==
    \E i \in 1..Len(gem.ops), j \in 1..Len(gem.ops) :
        i < j /\ gem.ops[i] = <<"kill", 1>> /\ gem.ops[j] = <<"spawn", 2>>

FallbackSpawnedWithSameArguments ==
    /\ Spawned(2)
    /\ gem.att[2].model = FallbackModel
    /\ gem.att[2].prompt = gem.prompt
    /\ gem.att[2].cwd = gem.workingDir

\* C4 (as claimed): execute has returned or thrown by the time the grace
\* window of the attempt it is waiting for is over, whatever the subprocess
\* did inside the window.
C4_ExecuteCompletesByGraceWindows ==
    /\ gem.pc = "primary" => ~gem.att[1].windowOver
    /\ gem.pc = "fallback" => ~gem.att[2].windowOver

\* C5 (as claimed): if the primary's stderr contains "status 429" within the
\* grace window, the primary has been sent a termination signal by exactly
\* one kill call, the secondary was spawned after it with the same prompt and
\* working directory, and a returned handle is never the primary's.
C5_Status429KillsOnceThenFallsBack ==
    Includes(InWindow(1), Status429) =>
        /\ gem.att[1].killCalls = 1
        /\ KillPrecedesFallbackSpawn
        /\ FallbackSpawnedWithSameArguments
        /\ gem.result # 1

\* C5 (amended): the primary is never sent more than one termination signal.
\* If its stderr contains "status 429" within the grace window, the attempt
\* was settled by the stderr listener or, earlier, by a non-zero exit; in the
\* first case the primary was signalled by exactly one kill call, made before
\* the secondary was spawned, in the second it was not signalled at all (it
\* had already exited and the secondary was already spawned).  In both cases
\* the secondary was spawned with the same prompt and working directory and a
\* returned handle is never the primary's.
C5_Status429FallsBackKillingAtMostOnce ==
    /\ gem.att[1].killCalls <= 1
    /\ Includes(InWindow(1), Status429) =>
        /\ gem.att[1].settledBy \in {"stderr", "exit"}
        /\ gem.att[1].settledBy = "stderr" =>
              /\ gem.att[1].killCalls = 1
              /\ KillPrecedesFallbackSpawn
        /\ gem.att[1].settledBy = "exit" => gem.att[1].killCalls = 0
        /\ FallbackSpawnedWithSameArguments
        /\ gem.result # 1

\* "status 429" arrived in the window split over two chunks, a further
\* matching chunk followed, the primary was signalled once and execute
\* returned the secondary's handle
C5_Witness ==
    /\ Len(InWindow(1)) = 3
    /\ SubSeq(InWindow(1), 1, 2) = Status429
    /\ gem.att[1].killCalls = 1 /\ gem.att[1].sigterms = 1
    /\ gem.pc = "returned" /\ gem.result = 2

\* C6 (as claimed): once the primary's grace window is over with no quota
\* signature in its stderr, execute has returned the primary's handle, the
\* secondary was never spawned and the provider has not killed the primary.
C6_NoQuotaSignatureReturnsPrimary ==
    (gem.att[1].windowOver
       /\ \A sig \in QuotaSignatures : ~Includes(InWindow(1), sig)) =>
        /\ gem.pc = "returned" /\ gem.result = 1
        /\ ~Spawned(2)
        /\ gem.att[1].killCalls = 0

\* C6 (amended): once the primary's grace window is over with the primary
\* still running and none of the five failure signatures in its stderr,
\* execute has returned the primary's handle, the secondary is never spawned
\* and the provider never kills the primary, whatever it writes or however
\* it exits afterwards.
C6_QuietWindowReturnsPrimary ==
    (gem.att[1].windowOver /\ gem.att[1].atWindowEnd = "running"
       /\ ~HasFailureSignature(InWindow(1))) =>
        /\ gem.pc = "returned" /\ gem.result = 1
        /\ gem.att[1].settledBy = "timer"
        /\ ~Spawned(2)
        /\ gem.att[1].killCalls = 0 /\ gem.att[1].sigterms = 0

\* the primary was returned after a quiet window and wrote "status 429"
\* afterwards: it is still running and was not killed
C6_Witness ==
    /\ gem.pc = "returned" /\ gem.result = 1
    /\ gem.att[1].atWindowEnd = "running"
    /\ ~HasFailureSignature(InWindow(1))
    /\ Includes(gem.att[1].stderrBuffer, Status429)
    /\ gem.att[1].proc = "running" /\ gem.att[1].killCalls = 0

(***************************************************************************)
(* Properties of the host's listener registry                              *)
(***************************************************************************)
ListenerCount ==
    Len(listeners["exit"]) + Len(listeners["SIGINT"]) + Len(listeners["SIGTERM"])

InstancesOf(seq, t) == Cardinality({i \in 1..Len(seq) : seq[i] = t})

PendingSupervised == {t \in Tasks : Supervised(t) /\ ~tasks[t].isCleanedUp}

\* C11: the host-level listeners (exit, SIGINT, SIGTERM) registered by tasks
\* number three times the supervised tasks whose cleanup has not run: each
\* such task has exactly one listener per event, every other task has none;
\* with every task cleaned up the number is zero.
C11_ThreeListenersPerPendingTask ==
    /\ ListenerCount = 3 * Cardinality(PendingSupervised)
    /\ \A t \in Tasks, ev \in HostEvents :
          InstancesOf(listeners[ev], t) = IF t \in PendingSupervised THEN 1 ELSE 0

\* every task was supervised and has been cleaned up, by more than one kind of
\* trigger, and no listener is left
C11_Witness ==
    /\ \A t \in Tasks : Supervised(t) /\ tasks[t].isCleanedUp /\ tasks[t].offCalls = 1
    /\ \E t \in Tasks : tasks[t].timer = "fired"
    /\ \E t \in Tasks : tasks[t].timer = "armed"
    /\ ListenerCount = 0

(***************************************************************************)
(* One webhook request from its payload to a supervised AI subprocess:     *)
(* workspace path, payload validation and the external commands, in the    *)
(* order the handlers run them.  A string is a sequence of characters, a   *)
(* path a sequence of segments, a segment a sequence of text pieces.       *)
(***************************************************************************)
\* '/'-separated parts of the identifier taken from the payload
MaxIdParts == 4
\* name.length > 255
MaxNameLength == 255

Alnum == {"a", "m", "o", "r", "x", "1", "7"}
DotDot == <<".", ".">>

\* repository.full_name, repository.name and pull_request.head.ref of the payload
RepoFullNames ==
    {<<"o", "/", "r">>, <<"o", "/", "r", "/", "x">>, <<"o", "/", "/", "r">>,
     <<"o", "/", "r", ";">>, <<"o", "r">>, <<"o", ".", ".", "/", "r">>}
RepoNames == {<<"r">>, <<".", ".", "/", "r">>}
BranchNames ==
    {<<"m">>, <<"a", "/", "x">>, <<"m", " ", "x">>, <<"m", "~", "1">>,
     <<"/", "m">>, <<"m", ".", ".", "x">>}

IdParts == {"7", ".."}
Ids == UNION {[1..n -> IdParts] : n \in 1..MaxIdParts}

Timestamp == "1718000000000"
TmpDir == << <<"tmp">> >>
\* resolve(tmpdir(), 'ai-github-helper')
BaseDir == TmpDir \o << <<"ai-github-helper">> >>

HandlerKinds == {"comment", "issue"}

\* `${prefix}${id}-${Date.now()}` cut at its '/' characters
SubdirectoryName(prefix, id) ==
    LET n == Len(id)
    IN IF n = 1 THEN << <<prefix, id[1], "-", Timestamp>> >>
       ELSE << <<prefix, id[1]>> >>
            \o [i \in 1..(n - 2) |-> <<id[i + 1]>>]
            \o << <<id[n], "-", Timestamp>> >>

\* path.resolve / path.normalize: '..' drops the last segment, '.' and empty
\* segments are skipped
RECURSIVE Resolve(_, _)
Resolve(base, segs) ==
    IF segs = <<>> THEN base
    ELSE LET seg == Head(segs)
             next == IF seg = <<"..">>
                     THEN (IF base = <<>> THEN base ELSE SubSeq(base, 1, Len(base) - 1))
                     ELSE IF seg = <<".">> \/ seg = <<"">> THEN base
                     ELSE Append(base, seg)
         IN Resolve(next, Tail(segs))

\* normalizedTempWorkDir.startsWith(expectedBasePath + '/')
StartsWithBase(path) ==
    Len(path) > Len(BaseDir) /\ SubSeq(path, 1, Len(BaseDir)) = BaseDir

\* the path test of setupWorkingDirectory
ValidTempDir(path) == StartsWithBase(path) \/ path = BaseDir

Chars(s) == {s[i] : i \in 1..Len(s)}

\* /^[a-zA-Z0-9][a-zA-Z0-9._-]*$/
RepoPart(p) ==
    /\ Len(p) >= 1
    /\ p[1] \in Alnum
    /\ Chars(p) \subseteq Alnum \cup {".", "_", "-"}

\* /^[a-zA-Z0-9][a-zA-Z0-9._-]*\/[a-zA-Z0-9][a-zA-Z0-9._-]*$/
RepoNameRegex(s) ==
    \E i \in 1..Len(s) :
        /\ s[i] = "/"
        /\ RepoPart(SubSeq(s, 1, i - 1))
        /\ RepoPart(SubSeq(s, i + 1, Len(s)))

\* sanitizeRepositoryName returns (TRUE) or throws (FALSE)
RepositoryNameValid(s) ==
    /\ s # <<>>
    /\ RepoNameRegex(s)
    /\ ~(Includes(s, DotDot) \/ Includes(s, <<"/", "/">>) \/ Len(s) > MaxNameLength)

\* /^[a-zA-Z0-9][a-zA-Z0-9/_.-]*[a-zA-Z0-9]$|^[a-zA-Z0-9]$/
BranchNameRegex(s) ==
    /\ Len(s) >= 1
    /\ s[1] \in Alnum /\ s[Len(s)] \in Alnum
    /\ Chars(s) \subseteq Alnum \cup {"/", "_", ".", "-"}

\* sanitizeBranchName returns (TRUE) or throws (FALSE)
BranchNameValid(s) ==
    /\ s # <<>>
    /\ BranchNameRegex(s)
    /\ ~(\/ Includes(s, DotDot) \/ s[1] = "/" \/ s[Len(s)] = "/"
         \/ Includes(s, <<"/", "/">>)
         \/ Chars(s) \cap {"~", "^", ":", "?", "*", "[", "\\", " "} # {}
         \/ Len(s) > MaxNameLength)

\* sanitizeFilename returns (TRUE) or throws (FALSE)
FilenameValid(s) ==
    /\ s # <<>>
    /\ ~(\/ Includes(s, DotDot)
         \/ Chars(s) \cap {"/", "\\", ":", "*", "?", "\"", "<", ">", "|"} # {}
         \/ Len(s) > MaxNameLength)
    /\ s[1] # "." /\ s[Len(s)] # "."

ReqPrefix(kind) ==
    CASE kind = "issue"  -> "issue-"
      [] kind = "review" -> "review-"
      [] OTHER           -> "review-comment-"

\* rmSync(path, { recursive: true, force: true }): a missing path is no error
ReqRemove(r) == [r EXCEPT !.removed = @ \cup {r.path}]

\* the catch of processReviewComment removes the workspace and rethrows; the
\* catch of handleIssue only answers 500
ReqFail(r, message) ==
    LET r1 == IF r.kind \in {"comment", "review"} THEN ReqRemove(r) ELSE r
    IN [r1 EXCEPT !.pc = "failed", !.error = message, !.response = 500]

ReqSpawnCommand(r, command) == [r EXCEPT !.cmds = Append(@, command)]

\* setupWorkingDirectory (review handler) / the inline mkdirSync (issue handler)
CreateWorkspace(r) ==
    LET path == Resolve(BaseDir, SubdirectoryName(ReqPrefix(r.kind), r.id))
    IN IF r.kind # "issue" /\ ~ValidTempDir(path)
       THEN [r EXCEPT !.pc = "failed", !.response = 500,
                      !.error = "Invalid temporary directory path"]
       ELSE [r EXCEPT !.pc = "workspace", !.path = path, !.created = @ \cup {path}]

\* setupRepository up to the spawn of gh repo clone / the issue handler's clone
StartClone(r) ==
    IF r.kind = "issue"
    THEN [ReqSpawnCommand(r, <<"gh repo clone", r.fullName>>) EXCEPT !.pc = "clone"]
    ELSE IF ~FilenameValid(r.repoName)
         THEN ReqFail(r, "Filename contains invalid characters")
    ELSE IF ~RepositoryNameValid(r.fullName)
         THEN ReqFail(r, "Invalid repository name format")
    ELSE [ReqSpawnCommand(r, <<"gh repo clone", r.fullName>>) EXCEPT !.pc = "clone"]

\* checkoutPRBranch up to the spawn of git checkout
StartCheckout(r) ==
    IF ~BranchNameValid(r.branch)
    THEN ReqFail(r, "Invalid branch name format")
    ELSE [ReqSpawnCommand(r, <<"git checkout", r.branch>>) EXCEPT !.pc = "checkout"]

\* how an awaited command (gh repo clone, git checkout) can end: 'close' with
\* an exit code, 'close' with code null after a signal, or 'error'
CommandOutcomes == {"exit 0", "exit 1", "signal", "spawn error"}

\* a close listener that resolves whatever the code
ExitedZeroAlways(outcome) == TRUE

\* close: if (code === 0) resolve() else reject(...); error: reject(error)
ExitedZero(outcome) == outcome = "exit 0"

ReqCommandEnded(r, command, outcome) ==
    [r EXCEPT !.exits = Append(@, <<command, outcome>>)]

\* createReviewCommentPrompt / createIssueAnalysisPrompt, then getAIProvider:
\* AIProviderFactory.create runs the first version check
StartResolve(r, templateReadable) ==
    IF ~templateReadable THEN ReqFail(r, "Unable to load prompt template")
    ELSE [ReqSpawnCommand(r, <<"version probe", <<>> >>) EXCEPT !.pc = "resolve"]

\* the webhook arrives: the handler runs up to its first await
ReqReceive ==
    /\ req.pc = "idle"
    /\ \E kind \in HandlerKinds, id \in Ids, fullName \in RepoFullNames,
          repoName \in RepoNames, branch \in BranchNames :
         LET r0 == [pc |-> "start", kind |-> kind, id |-> id,
                    fullName |-> fullName, repoName |-> repoName,
                    branch |-> IF kind = "issue" THEN <<>> ELSE branch,
                    path |-> <<>>, created |-> {}, removed |-> {},
                    cmds |-> <<>>, exits |-> <<>>, error |-> "none",
                    response |-> 0, timersSet |-> 0, listenersAdded |-> 0]
             r1 == CreateWorkspace(r0)
         IN req' = IF r1.pc = "failed" THEN r1 ELSE StartClone(r1)
    /\ UNCHANGED <<tasks, fs, listeners, lastEmit, now, host, config, gem, factory, mw, cli>>

\* close of gh repo clone
ReqCloneClosed ==
    /\ req.pc = "clone"
    /\ \E outcome \in CommandOutcomes, templateReadable \in BOOLEAN :
         LET r1 == ReqCommandEnded(req, "gh repo clone", outcome)
         IN req' = IF ~ExitedZero(outcome)
                   THEN ReqFail(r1, "Failed to clone repository")
                   ELSE IF req.kind = "issue" THEN StartResolve(r1, templateReadable)
                   ELSE StartCheckout(r1)
    /\ UNCHANGED <<tasks, fs, listeners, lastEmit, now, host, config, gem, factory, mw, cli>>

\* close of git checkout
ReqCheckoutClosed ==
    /\ req.pc = "checkout"
    /\ \E outcome \in CommandOutcomes, templateReadable \in BOOLEAN :
         LET r1 == ReqCommandEnded(req, "git checkout", outcome)
         IN req' = IF ExitedZero(outcome) THEN StartResolve(r1, templateReadable)
                   ELSE ReqFail(r1, "Failed to checkout PR branch")
    /\ UNCHANGED <<tasks, fs, listeners, lastEmit, now, host, config, gem, factory, mw, cli>>

\* setupCleanupHandlers: one setTimeout and three process.on calls; the PR
\* handler only attaches logging listeners to the child
ReqSupervise(r) ==
    IF r.kind = "pr" THEN [r EXCEPT !.pc = "started", !.response = 200]
    ELSE [r EXCEPT !.pc = "supervised", !.response = 200,
                   !.timersSet = @ + 1, !.listenersAdded = @ + 3]

\* the provider is resolved and its execute returns a child or throws
ReqExecuteSettled ==
    /\ req.pc = "resolve"
    /\ \E ok \in BOOLEAN :
         req' = IF ok THEN ReqSupervise(ReqSpawnCommand(req, <<"ai", <<>> >>))
                ELSE ReqFail(req, "No AI providers are available")
    /\ UNCHANGED <<tasks, fs, listeners, lastEmit, now, host, config, gem, factory, mw, cli>>

\* a cleanup trigger of the supervised task fires
ReqCleanup ==
    /\ req.pc = "supervised"
    /\ req' = [ReqRemove(req) EXCEPT !.pc = "cleaned"]
    /\ UNCHANGED <<tasks, fs, listeners, lastEmit, now, host, config, gem, factory, mw, cli>>

NextRequest ==
    \/ ReqReceive
    \/ ReqCloneClosed
    \/ ReqCheckoutClosed
    \/ ReqExecuteSettled
    \/ ReqCleanup

SpecRequest == Init /\ [][NextRequest]_vars

(***************************************************************************)
(* Properties of payload validation and of the workspace path              *)
(***************************************************************************)
Received == req.pc # "idle"

CommandsRun == {req.cmds[i][1] : i \in 1..Len(req.cmds)}

\* a branch name holding a space, a '~', a leading '/' or a '..' sequence
BranchNameDangerous(b) ==
    \/ " " \in Chars(b) \/ "~" \in Chars(b)
    \/ (b # <<>> /\ b[1] = "/")
    \/ Includes(b, DotDot)

\* C12 (as claimed): for a review task whose head branch name holds a space,
\* a '~', a leading '/' or a '..' sequence no external command has been
\* constructed or spawned; in particular gh repo clone was not run.
C12_DangerousBranchRunsNoCommand ==
    (Received /\ req.kind = "comment" /\ BranchNameDangerous(req.branch)) =>
        req.cmds = <<>>

\* C13 (as claimed): for a repository identity that does not have the strict
\* owner/repo shape no clone command has been spawned, in the review handler
\* and in the issue handler.
C13_MalformedRepositoryIsNeverCloned ==
    (Received /\ ~RepoNameRegex(req.fullName)) =>
        "gh repo clone" \notin CommandsRun

\* the identifier holds a '../' sequence: a '..' part followed by a '/'
HoldsTraversal(id) == \E i \in 1..(Len(id) - 1) : id[i] = ".."

\* C14 (as claimed): every workspace directory created is a descendant of the
\* base directory, and an identifier holding a '../' sequence makes workspace
\* creation fail with the invalid-path error, nothing being created.
C14_WorkspaceIsCreatedInsideBase ==
    Received =>
        /\ \A p \in req.created : StartsWithBase(p)
        /\ HoldsTraversal(req.id) =>
              /\ req.pc = "failed"
              /\ req.error = "Invalid temporary directory path"
              /\ req.created = {}

\* C15 (as claimed): every recursive removal performed for a task, by cleanup
\* or by the error path, targets a path inside the base directory.
C15_RemovalsStayInsideBase ==
    Received => \A p \in req.removed : StartsWithBase(p)

(***************************************************************************)
(* AIProviderFactory.create, one step per awaited availability probe, and  *)
(* the configuration its callers read the arguments from.                  *)
(***************************************************************************)
\* values of AI_PROVIDER and AI_FALLBACK_ENABLED in the environment
EnvProviders == {"unset", "claude", "gemini", "auto", "gpt"}
EnvFallbacks == {"unset", "true", "false", "TRUE", "1"}

\* defaultConfig.ai
LoadConfig(envProvider, envFallback) ==
    [preferredProvider |-> IF envProvider = "unset" THEN "claude" ELSE envProvider,
     fallbackEnabled |-> DefaultFallbackEnabled(envFallback)]

ProviderPriorityReversed == <<"gemini", "claude">>

\* const providers = [this.claudeProvider, this.geminiProvider]
ProviderPriority == <<"claude", "gemini">>

SameProvider(requested) == requested

\* requestedProvider === 'claude' ? this.geminiProvider : this.claudeProvider
OtherProvider(requested) == IF requested = "claude" THEN "gemini" ELSE "claude"

MustProbeAlways(fallbackEnabled) == TRUE

\* fallbackEnabled && !(await provider.isAvailable()): the probe is made only
\* when the flag is set
MustProbe(fallbackEnabled) == fallbackEnabled

NoProviderErrors ==
    {"Neither requested nor fallback provider are available",
     "No AI providers are available"}

FactoryReturn(f, p) == [f EXCEPT !.pc = "returned", !.result = p, !.probing = "none"]

FactoryThrow(f, message) ==
    [f EXCEPT !.pc = "failed", !.error = message, !.probing = "none"]

\* await provider.isAvailable()
FactoryProbe(f, stage, p) == [f EXCEPT !.pc = "probing", !.stage = stage, !.probing = p]

\* create(provider, fallbackEnabled) up to its first await
CreateCall(f) ==
    IF f.provider = "auto" THEN FactoryProbe(f, "auto", ProviderPriority[1])
    ELSE IF f.provider \in {"claude", "gemini"}
         THEN IF MustProbe(f.fallbackEnabled)
              THEN FactoryProbe(f, "requested", f.provider)
              ELSE FactoryReturn(f, f.provider)
    ELSE FactoryThrow(f, "Unsupported AI provider")

\* the continuation after an awaited isAvailable()
ProbeAnswered(f, available) ==
    LET f1 == [f EXCEPT !.probes = Append(@, [name |-> f.probing, available |-> available])]
        n == Len(f1.probes)
    IN CASE f.stage = "requested" ->
              IF available THEN FactoryReturn(f1, f.provider)
              ELSE FactoryProbe(f1, "fallback", OtherProvider(f.provider))
         [] f.stage = "fallback" ->
              IF available THEN FactoryReturn(f1, f.probing)
              ELSE FactoryThrow(f1, "Neither requested nor fallback provider are available")
         [] f.stage = "auto" ->
              IF available THEN FactoryReturn(f1, f.probing)
              ELSE IF n < Len(ProviderPriority)
                   THEN FactoryProbe(f1, "auto", ProviderPriority[n + 1])
              ELSE FactoryThrow(f1, "No AI providers are available")

\* how the version check `<tool> --version` run by exec can end
ProbeOutcomes == {"exit 0", "exit 1", "exit 127", "spawn error"}

\* an isAvailable without its try / catch
IsAvailableUncaught(outcome) == IF outcome = "exit 0" THEN "true" ELSE "threw"

\* isAvailable: try { await execAsync(...); return true } catch { return false };
\* execAsync rejects on a non-zero exit and on a spawn error
IsAvailable(outcome) == IF outcome = "exit 0" THEN "true" ELSE "false"

\* await provider.isAvailable() inside create: a rejection would leave create
\* as it is, nothing in the factory catches
AwaitIsAvailable(f, outcome) ==
    LET answer == IsAvailable(outcome)
        f1 == [f EXCEPT !.outcomes = Append(@, outcome)]
    IN IF answer = "threw"
       THEN FactoryThrow([f1 EXCEPT !.probes = Append(@, [name |-> f.probing,
                                                          available |-> FALSE])],
                         "Command failed")
       ELSE ProbeAnswered(f1, answer = "true")

FactoryCall(envProvider, envFallback, provider, fallbackEnabled) ==
    [pc |-> "called", envProvider |-> envProvider, envFallback |-> envFallback,
     provider |-> provider, fallbackEnabled |-> fallbackEnabled,
     stage |-> "none", probing |-> "none", probes |-> <<>>, outcomes |-> <<>>,
     result |-> "none", error |-> "none"]

\* a handler calls create(config.ai.preferredProvider, config.ai.fallbackEnabled)
FactoryCreateFromConfig ==
    /\ factory.pc = "idle"
    /\ \E envProvider \in EnvProviders, envFallback \in EnvFallbacks :
         LET cfg == LoadConfig(envProvider, envFallback)
         IN factory' = CreateCall(FactoryCall(envProvider, envFallback,
                                              cfg.preferredProvider, cfg.fallbackEnabled))
    /\ UNCHANGED <<tasks, fs, listeners, lastEmit, now, host, config, gem, req, mw, cli>>

\* create called with explicit arguments
FactoryCreate ==
    /\ factory.pc = "idle"
    /\ \E provider \in Providers, fallbackEnabled \in BOOLEAN :
         factory' = CreateCall(FactoryCall("n/a", "n/a", provider, fallbackEnabled))
    /\ UNCHANGED <<tasks, fs, listeners, lastEmit, now, host, config, gem, req, mw, cli>>

\* the version check of the probed tool has ended
FactoryProbeAnswer ==
    /\ factory.pc = "probing"
    /\ \E outcome \in ProbeOutcomes : factory' = AwaitIsAvailable(factory, outcome)
    /\ UNCHANGED <<tasks, fs, listeners, lastEmit, now, host, config, gem, req, mw, cli>>

NextFactory ==
    \/ FactoryCreateFromConfig
    \/ FactoryCreate
    \/ FactoryProbeAnswer

SpecFactory == Init /\ [][NextFactory]_vars

(***************************************************************************)
(* Properties of AIProviderFactory.create and of the fallback flag         *)
(***************************************************************************)
FactoryDone == factory.pc \in {"returned", "failed"}

ProbedNames == [i \in 1..Len(factory.probes) |-> factory.probes[i].name]

FailedWithNoProvider ==
    factory.pc = "failed" /\ factory.result = "none" /\ factory.error \in NoProviderErrors

\* C16: create(claude or gemini, fallbackEnabled = true) probes the requested
\* capability first; if it is available that one is returned and the other
\* is not probed; if not, the other is probed and returned when available,
\* and otherwise create fails with the no-provider error, returning nothing.
C16_FallbackSubstitutesOnlyWhenUnavailable ==
    (factory.pc # "idle" /\ factory.provider \in {"claude", "gemini"}
       /\ factory.fallbackEnabled /\ FactoryDone) =>
        LET other == IF factory.provider = "claude" THEN "gemini" ELSE "claude"
        IN /\ Len(factory.probes) >= 1
           /\ factory.probes[1].name = factory.provider
           /\ factory.probes[1].available =>
                 /\ factory.pc = "returned" /\ factory.result = factory.provider
                 /\ ProbedNames = <<factory.provider>>
           /\ ~factory.probes[1].available =>
                 /\ ProbedNames = <<factory.provider, other>>
                 /\ factory.probes[2].available =>
                       factory.pc = "returned" /\ factory.result = other
                 /\ ~factory.probes[2].available => FailedWithNoProvider

\* gemini was requested and is unavailable, claude is available and returned
C16_Witness ==
    /\ factory.pc = "returned" /\ factory.provider = "gemini"
    /\ factory.fallbackEnabled
    /\ factory.probes = <<[name |-> "gemini", available |-> FALSE],
                          [name |-> "claude", available |-> TRUE]>>
    /\ factory.result = "claude"

\* C17: create(auto, any fallback flag) probes claude first and gemini second:
\* claude is returned when available, gemini not being probed; gemini when
\* only gemini is available; with both unavailable create fails with the
\* no-provider error and returns nothing.
C17_AutoReturnsFirstAvailable ==
    (factory.pc # "idle" /\ factory.provider = "auto" /\ FactoryDone) =>
        /\ Len(factory.probes) >= 1
        /\ factory.probes[1].name = "claude"
        /\ factory.probes[1].available =>
              /\ factory.pc = "returned" /\ factory.result = "claude"
              /\ ProbedNames = <<"claude">>
        /\ ~factory.probes[1].available =>
              /\ ProbedNames = <<"claude", "gemini">>
              /\ factory.probes[2].available =>
                    factory.pc = "returned" /\ factory.result = "gemini"
              /\ ~factory.probes[2].available => FailedWithNoProvider

\* auto with the fallback flag off: both probes answered unavailable
C17_Witness ==
    /\ factory.pc = "failed" /\ factory.provider = "auto"
    /\ ~factory.fallbackEnabled
    /\ factory.probes = <<[name |-> "claude", available |-> FALSE],
                          [name |-> "gemini", available |-> FALSE]>>
    /\ factory.error = "No AI providers are available"

\* C18: create(claude or gemini, fallbackEnabled = false) returns the
\* requested capability at once: no probe is made, nothing is substituted
\* and the call does not fail.
C18_NoFallbackReturnsRequestedUnprobed ==
    (factory.pc # "idle" /\ factory.provider \in {"claude", "gemini"}
       /\ ~factory.fallbackEnabled) =>
        /\ factory.pc = "returned"
        /\ factory.result = factory.provider
        /\ factory.probes = <<>>

C18_Witness ==
    /\ factory.pc = "returned" /\ factory.provider = "gemini"
    /\ ~factory.fallbackEnabled
    /\ factory.result = "gemini" /\ factory.probes = <<>>

\* C19 (as claimed): for a call made with the configured arguments the
\* fallback flag is set exactly when AI_FALLBACK_ENABLED is 'true'; with any
\* other value, or unset, create(claude or gemini) makes no probe and
\* substitutes nothing.
C19_FallbackOnlyWhenEnvIsTrue ==
    (factory.pc # "idle" /\ factory.envFallback # "n/a") =>
        /\ factory.fallbackEnabled <=> (factory.envFallback = "true")
        /\ (factory.envFallback # "true" /\ factory.provider \in {"claude", "gemini"}) =>
              /\ factory.probes = <<>>
              /\ factory.result \in {"none", factory.provider}

(***************************************************************************)
(* Properties of spawn failures                                            *)
(***************************************************************************)
\* the AI tool of task t could not be spawned (the child's only 'error')
SpawnFailed(t) == tasks[t].child = "errored"

\* C20 (as claimed): a task whose AI tool failed to spawn was not
\* acknowledged as started: its handler answered with a failure.
C20_SpawnFailureIsReportedAsFailure ==
    \A t \in Tasks : SpawnFailed(t) => tasks[t].response = 500

(***************************************************************************)
(* The acknowledgement sent to the webhook's caller                        *)
(***************************************************************************)
\* the event loop runs the callback that ends the wait for execute: within
\* five seconds of the spawn the subprocess errors, writes, exits, or the
\* grace timer fires
ExecuteWaitEnds(t) == ExecuteReturn(t) \/ ExecuteThrow(t) \/ ExecuteNeverSettles(t)

SpecFair == Spec /\ \A t \in Tasks : WF_vars(ExecuteWaitEnds(t))

\* res.status(...).json(...) has been called for the task's request
Acknowledged(t) == tasks[t].response # 0

\* C21 (as claimed): a handler that is waiting for execute, its AI subprocess
\* spawned, sends its acknowledgement while the host is up, whether or not
\* the subprocess ever exits.
C21_AcknowledgedOnceSpawned ==
    \A t \in Tasks :
        (tasks[t].pc = "execute") ~> (Acknowledged(t) \/ host = "down")

(***************************************************************************)
(* Properties of the two attempts of GeminiProvider.execute                *)
(***************************************************************************)
\* the attempt's subprocess exited with a code other than 0 before the end of
\* its grace window
ExitedNonZeroInWindow(a) ==
    /\ gem.att[a].exitCode \notin {"none", "0"}
    /\ gem.att[a].windowOver => gem.att[a].atWindowEnd = "exited"

\* the attempt failed inside its grace window: spawn error, failure signature
\* on stderr, or non-zero exit
FailedInWindow(a) ==
    /\ Spawned(a)
    /\ \/ gem.att[a].proc = "errored"
       \/ HasFailureSignature(InWindow(a))
       \/ ExitedNonZeroInWindow(a)

\* one of the three failures has happened to the attempt, at any time
FailureSeen(a) ==
    /\ Spawned(a)
    /\ \/ gem.att[a].proc = "errored"
       \/ HasFailureSignature(gem.att[a].stderrBuffer)
       \/ gem.att[a].exitCode \notin {"none", "0"}

SpawnsOf(a) == Cardinality({i \in 1..Len(gem.ops) : gem.ops[i] = <<"spawn", a>>})

\* C22: when both Gemini attempts have failed inside their grace windows
\* (spawn error, failure signature or non-zero exit), execute has thrown and
\* returned no handle.  The secondary is spawned at most once, and only when
\* the primary attempt has failed and been rejected; the primary's handle is
\* then never returned.
C22_BothAttemptsFailedThrows ==
    /\ (FailedInWindow(1) /\ FailedInWindow(2)) =>
          gem.pc = "failed" /\ gem.result = 0
    /\ SpawnsOf(1) <= 1 /\ SpawnsOf(2) <= 1
    /\ Spawned(2) =>
          /\ FailureSeen(1)
          /\ gem.att[1].settled = "rejected"
          /\ gem.result # 1
    /\ gem.pc = "failed" => FailureSeen(1) /\ FailureSeen(2)

\* the primary failed by a signature split over two chunks, the secondary by
\* a non-zero exit, and execute threw
C22_Witness ==
    /\ gem.pc = "failed"
    /\ gem.att[1].settledBy = "stderr" /\ gem.att[1].stderrBuffer = Status429
    /\ gem.att[2].settledBy = "exit" /\ gem.att[2].exitCode = "1"
    /\ SpawnsOf(2) = 1

\* the primary's stderr text that arrived after its grace window
AfterWindow(a) ==
    IF gem.att[a].windowOver
    THEN SubSeq(gem.att[a].stderrBuffer, gem.att[a].windowLen + 1,
                Len(gem.att[a].stderrBuffer))
    ELSE <<>>

\* C23: once execute has returned the primary's handle, its grace window is
\* over and, whatever appears on stderr afterwards (a quota signature
\* included), the provider never kills the primary and never spawns the
\* secondary; when the primary exits, the caller's close listener is
\* attached and receives the close.
C23_LateSignatureTriggersNoRetry ==
    (gem.pc = "returned" /\ gem.result = 1) =>
        /\ gem.att[1].windowOver /\ gem.att[1].settledBy = "timer"
        /\ gem.att[1].killCalls = 0 /\ gem.att[1].sigterms = 0
        /\ ~Spawned(2) /\ SpawnsOf(2) = 0
        /\ gem.att[1].proc \in {"running", "exited"}
        /\ gem.att[1].proc = "exited" => gem.att[1].closeTo = "caller"

\* the primary was returned, wrote "status 429" after its window and then
\* exited with code 1: the caller saw the close, nothing was retried
C23_Witness ==
    /\ gem.pc = "returned" /\ gem.result = 1
    /\ Includes(AfterWindow(1), Status429)
    /\ ~HasFailureSignature(InWindow(1))
    /\ gem.att[1].proc = "exited" /\ gem.att[1].exitCode = "1"
    /\ gem.att[1].closeTo = "caller"
    /\ ~Spawned(2)

(***************************************************************************)
(* Properties of the close and error listeners of a supervised subprocess  *)
(***************************************************************************)
\* the subprocess has emitted 'close' or 'error'
Ended(k) == k.child \in {"closed", "errored"}

\* C24: a step in which the supervised subprocess emits close or error leaves
\* the timeout timer cancelled (or already fired) and cleanup done; and once
\* the subprocess has emitted close or error with the timer not fired, the
\* timer never fires: a completed or failed task does not become timed out.
C24_CloseOrErrorCancelsTimer ==
    [][\A t \in Tasks :
          /\ (tasks'[t].pc = "supervised" /\ Ended(tasks'[t])
                /\ tasks'[t].child # tasks[t].child) =>
                 /\ tasks'[t].timer \in {"cleared", "fired"}
                 /\ tasks[t].timer # "fired" => tasks'[t].timer = "cleared"
                 /\ tasks'[t].isCleanedUp /\ tasks'[t].rmCalls = 1
          /\ (Ended(tasks[t]) /\ tasks[t].timer # "fired") =>
                 tasks'[t].timer # "fired"]_vars

\* the subprocess closed with the timer pending: the close listener cancelled
\* the timer and ran cleanup, no host event and no timeout being involved
C24_Witness ==
    \E t \in Tasks :
        /\ Supervised(t) /\ tasks[t].child = "closed"
        /\ tasks[t].timer = "cleared" /\ tasks[t].isCleanedUp
        /\ tasks[t].rmCalls = 1 /\ lastEmit = <<>>

(***************************************************************************)
(* Properties of output forwarding                                         *)
(***************************************************************************)
\* C25 (as claimed): every stderr chunk of the subprocess whose handle
\* execute returned has been handed to the logger, the chunks emitted between
\* its spawn and the return of the handle included, and a chunk arriving
\* after the return makes the provider take no action on the subprocess.
C25_EveryChunkIsForwarded ==
    \A a \in 1..2 :
        (gem.pc = "returned" /\ gem.result = a) =>
            /\ gem.att[a].logged = gem.att[a].stderrBuffer
            /\ gem.att[a].killCalls = 0

(***************************************************************************)
(* Properties of the awaited external commands                             *)
(***************************************************************************)
\* the handler is suspended on gh repo clone, git checkout or a version probe
AwaitingCommand(t) == tasks[t].pc \in {"clone", "checkout", "resolve"}

\* C26 (as claimed): a handler waiting for an external command (clone,
\* checkout, availability probe) stops waiting while the host is up, even if
\* the command never exits: a timeout of its own ends the wait.
C26_AwaitedCommandsAreBounded ==
    \A t \in Tasks :
        AwaitingCommand(t) ~> (~AwaitingCommand(t) \/ host = "down")

\* the version check of the i-th probe exited non-zero or failed to spawn
ProbeFailed(i) == factory.outcomes[i] # "exit 0"

CreateErrors == NoProviderErrors \cup {"Unsupported AI provider"}

\* C27: a probe whose version check exits non-zero or fails to spawn counts
\* as unavailable and one that exits with 0 as available; create goes on to
\* the next candidate after a failed probe, and when create fails it fails
\* with an error of its own, the no-provider error whenever a probe was made,
\* never with the error of the version check.
C27_FailedProbeCountsAsUnavailable ==
    factory.pc # "idle" =>
        /\ Len(factory.outcomes) = Len(factory.probes)
        /\ \A i \in 1..Len(factory.probes) :
              factory.probes[i].available <=> ~ProbeFailed(i)
        /\ factory.pc = "failed" =>
              /\ factory.error \in CreateErrors
              /\ factory.probes # <<>> =>
                    /\ factory.error \in NoProviderErrors
                    /\ \A i \in 1..Len(factory.probes) : ProbeFailed(i)
                    /\ Len(factory.probes) = 2

\* claude's version check failed to spawn, gemini's exited with 127: create
\* failed with the no-provider error after probing both
C27_Witness ==
    /\ factory.pc = "failed"
    /\ factory.outcomes = <<"spawn error", "exit 127">>
    /\ ProbedNames = <<"claude", "gemini">>
    /\ factory.error \in NoProviderErrors

(***************************************************************************)
(* One task whose cleanup steps can fail: the environment makes child.kill, *)
(* rmSync or process.off throw (EPERM, EBUSY, ...) while the task is       *)
(* supervised, and the cleanup triggers fire as in Spec.                   *)
(***************************************************************************)
FirstTask == CHOOSE t \in Tasks : \A u \in Tasks : t <= u

\* from now on the step's call throws for this task
StepBreaks(t) ==
    /\ host = "up"
    /\ Supervised(t) /\ ~tasks[t].isCleanedUp
    /\ \E step \in Steps \ tasks[t].failures :
         tasks' = [tasks EXCEPT ![t].failures = @ \cup {step}]
    /\ UNCHANGED <<fs, listeners, lastEmit, now, host, config, gem, factory, req, mw, cli>>

NextCleanup ==
    \/ StartReview(FirstTask)
    \/ StartIssue(FirstTask)
    \/ CloneDone(FirstTask)
    \/ CheckoutDone(FirstTask)
    \/ ResolveDone(FirstTask)
    \/ ExecuteReturn(FirstTask)
    \/ StepBreaks(FirstTask)
    \/ TimeoutFire(FirstTask)
    \/ ChildClose(FirstTask)
    \/ \E sig \in Signals : Signal(sig)
    \/ HostExit

SpecCleanup == Init /\ [][NextCleanup]_vars

\* the cleanup steps of task t that were attempted and whose call threw
FailedSteps(t) ==
    {step \in tasks[t].failures :
        step = "kill" => tasks[t].killCalls = 1 /\ ~tasks[t].killed}

\* C28: whichever of the cleanup steps (kill, workspace removal, listener
\* deregistration) fail, no exception leaves cleanup, each failure is logged,
\* the removal and the deregistration are still attempted once each and take
\* effect when they do not fail themselves, the guard is released and the
\* cleanup state is done.
C28_CleanupStepFailuresAreContained ==
    \A t \in Tasks :
        LET k == tasks[t]
        IN /\ ~k.threw /\ ~k.cleanupMutex
           /\ (Supervised(t) /\ k.isCleanedUp) =>
                 /\ k.warnings = FailedSteps(t)
                 /\ k.rmCalls = 1 /\ k.offCalls = 1 /\ k.killCalls <= 1
                 /\ "rm" \notin k.failures => k.path \notin fs
                 /\ "off" \notin k.failures => ~RegisteredIn(listeners, t)
           /\ (Supervised(t) /\ ~k.isCleanedUp) => k.warnings = {}
           /\ (Supervised(t) /\ (k.timer = "fired" \/ Ended(k))) => k.isCleanedUp

\* the timer fired with kill and removal both failing: both were logged, the
\* listeners were still deregistered and the cleanup is done
C28_Witness ==
    \E t \in Tasks :
        /\ tasks[t].timer = "fired" /\ tasks[t].isCleanedUp
        /\ tasks[t].failures = {"kill", "rm"}
        /\ tasks[t].warnings = {"kill", "rm"}
        /\ tasks[t].path \in fs
        /\ tasks[t].offCalls = 1 /\ ~RegisteredIn(listeners, t)

(***************************************************************************)
(* The signature middleware verifyWebhookSignature(secret).  A string is   *)
(* the sequence of its character codes (charCodeAt); the digest is a       *)
(* deterministic function of the secret and the payload text.              *)
(***************************************************************************)
\* 'sha256='
Sha256Prefix == <<115, 104, 97, 50, 53, 54, 61>>

\* '0'..'9', 'a'..'f'
HexDigits == <<48, 49, 50, 51, 52, 53, 54, 55, 56, 57, 97, 98, 99, 100, 101, 102>>

\* the secret the middleware is created with; '' when it is not configured
Secrets == {"", "test-secret", "other-secret"}

\* req.body as parsed by express.json()
Bodies == {"{}", "{action: opened}", "{action: closed}"}

SecretIndex(secret) == IF secret = "test-secret" THEN 3 ELSE 12
BodyIndex(body) ==
    CASE body = "{}" -> 0
      [] body = "{action: opened}" -> 7
      [] body = "{action: closed}" -> 10

\* createHmac('sha256', secret).update(JSON.stringify(body)).digest('hex')
HmacHex(secret, body) ==
    <<HexDigits[SecretIndex(secret) + 1],
      HexDigits[((SecretIndex(secret) + BodyIndex(body)) % 16) + 1],
      HexDigits[BodyIndex(body) + 1]>>

ExpectedSignature(secret, body) == Sha256Prefix \o HmacHex(secret, body)

RECURSIVE BitXor(_, _)
\* a ^ b
BitXor(a, b) ==
    IF a = 0 THEN b
    ELSE IF b = 0 THEN a
    ELSE 2 * BitXor(a \div 2, b \div 2) + ((a + b) % 2)

RECURSIVE BitOr(_, _)
\* a | b
BitOr(a, b) ==
    IF a = 0 THEN b
    ELSE IF b = 0 THEN a
    ELSE 2 * BitOr(a \div 2, b \div 2) + (IF a % 2 = 1 \/ b % 2 = 1 THEN 1 ELSE 0)

RECURSIVE XorFold(_, _, _, _)
\* for (i...) result |= signature.charCodeAt(i) ^ expectedSignature.charCodeAt(i)
XorFold(signature, expected, i, result) ==
    IF i > Len(signature) THEN result
    ELSE XorFold(signature, expected, i + 1,
                 BitOr(result, BitXor(signature[i], expected[i])))

\* a comparison that stops at the length test
VerifySignatureLengthOnly(signature, expected) == Len(signature) = Len(expected)

\* verifySignature
VerifySignature(signature, expected) ==
    IF Len(signature) # Len(expected) THEN FALSE
    ELSE XorFold(signature, expected, 1, 0) = 0

\* the same text with its last character replaced
LastChanged(s) == [s EXCEPT ![Len(s)] = IF @ = 48 THEN 49 ELSE 48]

\* the same text with its hex digits in upper case
UpperCased(s) == [i \in 1..Len(s) |-> IF s[i] >= 97 /\ i > Len(Sha256Prefix) THEN s[i] - 32 ELSE s[i]]

\* values of the X-Hub-Signature-256 header a sender can put on a request
HeaderValues ==
    LET good == {ExpectedSignature(s, b) : s \in Secrets \ {""}, b \in Bodies}
    IN {<<>>, Sha256Prefix}
       \cup good
       \cup {LastChanged(v) : v \in good}
       \cup {UpperCased(v) : v \in good}
       \cup {Append(v, 48) : v \in good}
       \cup {HmacHex(s, b) : s \in Secrets \ {""}, b \in Bodies}

Headers ==
    {[present |-> FALSE, value |-> <<>>]}
    \cup {[present |-> TRUE, value |-> v] : v \in HeaderValues}

MwRespond(m, status, error) ==
    [m EXCEPT !.responses = Append(@, [status |-> status, error |-> error])]

\* the middleware returned by verifyWebhookSignature(secret), one request
Middleware(m, header, body) ==
    LET m0 == [m EXCEPT !.pc = "done", !.header = header, !.body = body,
                        !.responses = <<>>, !.nextCalls = 0]
    IN IF ~header.present \/ header.value = <<>>
       THEN MwRespond(m0, 401, "Missing signature header")
       ELSE IF m.secret = ""
            THEN MwRespond(m0, 500, "Server configuration error")
       ELSE IF ~VerifySignature(header.value, ExpectedSignature(m.secret, body))
            THEN MwRespond(m0, 401, "Invalid signature")
       ELSE [m0 EXCEPT !.nextCalls = @ + 1]

\* verifyWebhookSignature(secret): the route is set up
MwCreate ==
    /\ mw.pc = "idle"
    /\ \E secret \in Secrets :
         mw' = [pc |-> "ready", secret |-> secret,
                header |-> [present |-> FALSE, value |-> <<>>], body |-> "{}",
                responses |-> <<>>, nextCalls |-> 0]
    /\ UNCHANGED <<tasks, fs, listeners, lastEmit, now, host, config, gem, factory, req, cli>>

\* a POST /webhook reaches the middleware
MwRequest ==
    /\ mw.pc \in {"ready", "done"}
    /\ \E header \in Headers, body \in Bodies : mw' = Middleware(mw, header, body)
    /\ UNCHANGED <<tasks, fs, listeners, lastEmit, now, host, config, gem, factory, req, cli>>

NextAuth ==
    \/ MwCreate
    \/ MwRequest

SpecAuth == Init /\ [][NextAuth]_vars

\* C29: the middleware calls next() exactly when the signature header is
\* present, the secret is configured and the header equals 'sha256=' followed
\* by the HMAC-SHA256 of the JSON body under the secret; then it sends no
\* response.  Otherwise it does not call next() and sends exactly one error
\* response: 401 for a missing header (also when the secret is missing too),
\* 500 for a missing secret, 401 for a header that does not match.
C29_NextIffSignatureMatches ==
    mw.pc = "done" =>
        LET missing == ~mw.header.present \/ mw.header.value = <<>>
            valid == /\ ~missing
                     /\ mw.secret # ""
                     /\ mw.header.value = ExpectedSignature(mw.secret, mw.body)
        IN /\ mw.nextCalls = (IF valid THEN 1 ELSE 0)
           /\ valid => mw.responses = <<>>
           /\ ~valid =>
                 /\ Len(mw.responses) = 1
                 /\ mw.responses[1].status =
                       (IF missing THEN 401 ELSE IF mw.secret = "" THEN 500 ELSE 401)
                 /\ mw.responses[1].error =
                       (IF missing THEN "Missing signature header"
                        ELSE IF mw.secret = "" THEN "Server configuration error"
                        ELSE "Invalid signature")

\* a request signed with the configured secret over its body passed
C29_Witness ==
    /\ mw.pc = "done" /\ mw.secret = "test-secret"
    /\ mw.body = "{action: opened}"
    /\ mw.header.value = ExpectedSignature("test-secret", "{action: opened}")
    /\ mw.nextCalls = 1 /\ mw.responses = <<>>

(***************************************************************************)
(* Properties of the kill step of cleanup                                  *)
(***************************************************************************)
\* C30 (as claimed): every kill that cleanup attempts is made on a child that
\* is still alive: no kill call is made when cleanup is triggered by the
\* child's own close or after the child has exited.
C30_KillAttemptedOnlyOnLiveChild ==
    \A t \in Tasks : tasks[t].killCalls = tasks[t].sigterms

\* C30 (amended): a termination signal is delivered only to a child that is
\* still alive, and at most once per task.  The cleanup of a supervised task
\* makes exactly one kill call when it runs, whatever triggers it (the guard
\* is child.killed, which is false until a signal was delivered): the call
\* delivers the signal if the child is alive, unless the call itself throws,
\* and nothing if the child has closed or failed to spawn.
C30_SignalDeliveredOnlyToLiveChild ==
    [][\A t \in Tasks :
          /\ tasks'[t].sigterms # tasks[t].sigterms =>
                /\ tasks[t].child = "running" /\ tasks'[t].child = "running"
                /\ tasks[t].sigterms = 0 /\ tasks'[t].sigterms = 1
                /\ tasks'[t].killed
          /\ tasks'[t].killCalls # tasks[t].killCalls =>
                ~tasks[t].isCleanedUp /\ tasks'[t].isCleanedUp
          /\ (tasks'[t].pc = "supervised" /\ ~tasks[t].isCleanedUp
                /\ tasks'[t].isCleanedUp) =>
                LET delivered == /\ tasks'[t].child = "running"
                                 /\ "kill" \notin tasks'[t].failures
                IN /\ tasks'[t].killCalls = 1
                   /\ tasks'[t].sigterms = (IF delivered THEN 1 ELSE 0)
                   /\ tasks'[t].killed <=> delivered]_vars

\* cleanup was triggered by the child's own close: one kill call was made
\* and no signal was delivered
C30_Witness ==
    \E t \in Tasks :
        /\ Supervised(t) /\ tasks[t].child = "closed" /\ tasks[t].isCleanedUp
        /\ tasks[t].timer = "cleared" /\ lastEmit = <<>>
        /\ tasks[t].killCalls = 1 /\ tasks[t].sigterms = 0 /\ ~tasks[t].killed

(***************************************************************************)
(* Properties of the joint teardown of workspace and subprocess            *)
(***************************************************************************)
\* C31 (as claimed): in no reachable state has the workspace directory of a
\* task been removed while the AI subprocess of that task is still running
\* (it has emitted neither close nor error).
C31_WorkspaceOutlivesRunningChild ==
    \A t \in Tasks :
        tasks[t].child = "running" => tasks[t].path \in fs

(***************************************************************************)
(* Properties of the order of a review-response task's steps               *)
(***************************************************************************)
\* the commands spawned for the request and the commands that have ended, in
\* order
SpawnedNames == [i \in 1..Len(req.cmds) |-> req.cmds[i][1]]

ReviewCommandOrder == <<"gh repo clone", "git checkout", "version probe", "ai">>

IsPrefix(s, full) == Len(s) <= Len(full) /\ s = SubSeq(full, 1, Len(s))

\* the i-th awaited command has ended with exit code 0
EndedWithZero(i) == Len(req.exits) >= i /\ req.exits[i][2] = "exit 0"

\* C32: in a review-response task the workspace is created first, then gh
\* repo clone, git checkout, the provider's version probe and the AI
\* subprocess are spawned in this order, each only after the awaited command
\* before it has exited with code 0: the AI subprocess is spawned only after
\* clone and checkout both exited with 0, after a failed clone nothing else
\* is spawned and the task fails, and supervision with its acknowledgement
\* comes only after the AI subprocess was spawned.
C32_ReviewStepsRunInOrder ==
    (Received /\ req.kind = "comment") =>
        /\ IsPrefix(SpawnedNames, ReviewCommandOrder)
        /\ Len(req.exits) <= 2
        /\ \A i \in 1..Len(req.exits) : req.exits[i][1] = ReviewCommandOrder[i]
        /\ SpawnedNames # <<>> => req.path \in req.created
        /\ Len(SpawnedNames) >= 2 => EndedWithZero(1)
        /\ Len(SpawnedNames) >= 3 => EndedWithZero(1) /\ EndedWithZero(2)
        /\ (Len(req.exits) >= 1 /\ ~EndedWithZero(1)) =>
              req.pc = "failed" /\ SpawnedNames = <<"gh repo clone">>
        /\ (Len(req.exits) = 2 /\ ~EndedWithZero(2)) =>
              req.pc = "failed" /\ SpawnedNames = <<"gh repo clone", "git checkout">>
        /\ req.pc \in {"supervised", "cleaned"} <=> SpawnedNames = ReviewCommandOrder
        /\ req.response = 200 => SpawnedNames = ReviewCommandOrder

\* clone and checkout exited with 0, the probe ran and the AI subprocess was
\* spawned and is supervised
C32_Witness ==
    /\ req.pc = "supervised" /\ req.kind = "comment"
    /\ req.exits = << <<"gh repo clone", "exit 0">>, <<"git checkout", "exit 0">> >>
    /\ SpawnedNames = ReviewCommandOrder

(***************************************************************************)
(* Properties of the HTTP response of a webhook request                    *)
(***************************************************************************)
\* the awaited external commands end: gh repo clone and git checkout close,
\* the version probes answer, and the wait for execute ends as in SpecFair
SpecFairCommands ==
    /\ Spec
    /\ \A t \in Tasks :
          /\ WF_vars(CloneDone(t))
          /\ WF_vars(CheckoutDone(t))
          /\ WF_vars(ResolveDone(t))
          /\ WF_vars(ExecuteWaitEnds(t))

\* C33 (as claimed): every request handed to a handler is answered with one
\* HTTP response while the host is up, on every path its handler can take:
\* it never stays without a response.
C33_EveryRequestIsAnswered ==
    \A t \in Tasks :
        (tasks[t].kind # "none") ~> (tasks[t].response # 0 \/ host = "down")

(***************************************************************************)
(* The /webhook route after the signature check: the switch on the event   *)
(* type and the entry of each handler up to its first await.  The text a   *)
(* handler searches for the mention is a sequence of tokens: the mention   *)
(* itself, a space, a word character.                                      *)
(***************************************************************************)
EventTypes ==
    {"pull_request", "issues", "issue_comment", "pull_request_review",
     "pull_request_review_comment", "push", "ping"}

\* payload.action
PayloadActions == {"opened", "synchronize", "edited", "created", "submitted", "closed"}

MentionTokens == {"@ai-helper", "@AI-Helper"}
TextTokens == MentionTokens \cup {" ", "x"}
MaxTextLen == 2
Texts == UNION {[1..n -> TextTokens] : n \in 1..MaxTextLen}

\* payload.comment is present on the two comment events only
HasComment(eventType) ==
    eventType \in {"issue_comment", "pull_request_review_comment"}

\* a switch that sends review events to the review handler
HandlerOfReviewSplit(eventType) ==
    CASE eventType = "pull_request" -> "handlePullRequest"
      [] eventType \in {"issues", "issue_comment"} -> "handleIssue"
      [] eventType = "pull_request_review" -> "handlePullRequestReview"
      [] eventType = "pull_request_review_comment" -> "handleReviewComment"
      [] OTHER -> "none"

\* switch (eventType) of the route
HandlerOf(eventType) ==
    CASE eventType = "pull_request" -> "handlePullRequest"
      [] eventType \in {"issues", "issue_comment"} -> "handleIssue"
      [] eventType \in {"pull_request_review", "pull_request_review_comment"} ->
            "handleReviewComment"
      [] OTHER -> "none"

\* /(?:^|[^\w])@ai-helper\b/i .test(text)
AiHelperMentioned(text) ==
    \E i \in 1..Len(text) :
        /\ text[i] \in MentionTokens
        /\ i = 1 \/ text[i - 1] = " "
        /\ i = Len(text) \/ text[i + 1] # "x"

\* /^[a-zA-Z0-9-]+\/[a-zA-Z0-9-._]+$/
PrRepoNameRegex(s) ==
    \E i \in 1..Len(s) :
        /\ s[i] = "/"
        /\ i > 1 /\ Chars(SubSeq(s, 1, i - 1)) \subseteq Alnum \cup {"-"}
        /\ i < Len(s) /\ Chars(SubSeq(s, i + 1, Len(s))) \subseteq Alnum \cup {"-", ".", "_"}

\* /^[a-zA-Z0-9-._\/]+$/
PrBranchNameRegex(s) ==
    Len(s) >= 1 /\ Chars(s) \subseteq Alnum \cup {"-", ".", "_", "/"}

\* res.status(status).json({ message | error }); return
ReqRespond(r, pc, status, message) ==
    [r EXCEPT !.pc = pc, !.response = status, !.message = message]

\* setupWorkingDirectory, then setupRepository up to the spawn of gh repo clone
ReqProcess(r, kind) ==
    LET r1 == CreateWorkspace([r EXCEPT !.kind = kind])
    IN IF r1.pc = "failed" THEN r1 ELSE StartClone(r1)

\* an unhandled exception reaches the catch of the route
ReqServerCatch(r) ==
    [r EXCEPT !.pc = "failed", !.response = 500, !.error = "Internal server error"]

\* a handler that processes every event it is handed
HandleReviewCommentUnfiltered(r) == ReqProcess(r, "comment")

\* handleReviewComment up to the first await of processReviewComment
HandleReviewComment(r) ==
    IF r.action # "created"
    THEN ReqRespond(r, "ignored", 200, "Event ignored")
    ELSE IF ~HasComment(r.eventType) THEN ReqServerCatch(r)
    ELSE IF ~AiHelperMentioned(r.text)
         THEN ReqRespond(r, "ignored", 200, "AI helper not mentioned")
    ELSE ReqProcess(r, "comment")

\* config.ai.autoFixReviews is not set by the configuration
HandlePullRequestReview(r) ==
    IF r.action # "submitted"
    THEN ReqRespond(r, "ignored", 200, "Event ignored")
    ELSE IF ~AiHelperMentioned(r.text)
         THEN ReqRespond(r, "ignored", 200,
                         "AI helper not mentioned and auto-fix reviews disabled")
    ELSE ReqProcess(r, "review")

HandleIssue(r) ==
    LET isValidEvent == \/ r.action \in {"opened", "edited"}
                        \/ r.action = "created" /\ HasComment(r.eventType)
    IN IF ~isValidEvent THEN ReqRespond(r, "ignored", 200, "Event ignored")
       ELSE IF ~AiHelperMentioned(r.text)
            THEN ReqRespond(r, "ignored", 200, "AI helper not mentioned")
       ELSE ReqProcess(r, "issue")

HandlePullRequest(r, templateReadable) ==
    IF r.action \notin {"opened", "synchronize"}
    THEN ReqRespond(r, "ignored", 200, "Event ignored")
    ELSE IF ~PrRepoNameRegex(r.fullName)
         THEN ReqRespond(r, "rejected", 400, "Invalid repository name format")
    ELSE IF ~PrBranchNameRegex(r.base) \/ ~PrBranchNameRegex(r.branch)
         THEN ReqRespond(r, "rejected", 400, "Invalid branch name format")
    ELSE StartResolve([r EXCEPT !.kind = "pr"], templateReadable)

\* the body of the route
Route(r, templateReadable) ==
    LET h == HandlerOf(r.eventType)
        r1 == [r EXCEPT !.handler = h]
    IN CASE h = "handlePullRequest" -> HandlePullRequest(r1, templateReadable)
         [] h = "handleIssue" -> HandleIssue(r1)
         [] h = "handleReviewComment" -> HandleReviewComment(r1)
         [] h = "handlePullRequestReview" -> HandlePullRequestReview(r1)
         [] OTHER -> ReqRespond(r1, "received", 200, "Webhook received successfully")

\* the parts of a payload its handler reads: pull_request events carry the
\* names the PR handler validates, the others the text searched for a mention
Payloads(eventType) ==
    IF eventType = "pull_request"
    THEN [fullName : RepoFullNames, branch : BranchNames,
          base : {<<"m">>, <<"m", " ", "x">>}, text : {<<"x">>}]
    ELSE IF HandlerOf(eventType) = "none"
         THEN [fullName : {<<"o", "/", "r">>}, branch : {<<"m">>},
               base : {<<"m">>}, text : {<<"x">>}]
    ELSE [fullName : {<<"o", "/", "r">>}, branch : {<<"m">>},
          base : {<<"m">>}, text : Texts]

\* a signed webhook reaches the route
ReqDispatch ==
    /\ req.pc = "idle"
    /\ \E eventType \in EventTypes, action \in PayloadActions,
          templateReadable \in BOOLEAN :
         \E payload \in Payloads(eventType) :
            req' = Route([pc |-> "start", kind |-> "none", id |-> <<"7">>,
                          fullName |-> payload.fullName, repoName |-> <<"r">>,
                          branch |-> payload.branch, base |-> payload.base,
                          path |-> <<>>, created |-> {}, removed |-> {},
                          cmds |-> <<>>, exits |-> <<>>, error |-> "none",
                          response |-> 0, timersSet |-> 0, listenersAdded |-> 0,
                          eventType |-> eventType, action |-> action,
                          text |-> payload.text, handler |-> "none",
                          message |-> "none"],
                         templateReadable)
    /\ UNCHANGED <<tasks, fs, listeners, lastEmit, now, host, config, gem, factory, mw, cli>>

NextDispatch ==
    \/ ReqDispatch
    \/ ReqCloneClosed
    \/ ReqCheckoutClosed
    \/ ReqExecuteSettled
    \/ ReqCleanup

SpecDispatch == Init /\ [][NextDispatch]_vars

(***************************************************************************)
(* Properties of ignored and rejected webhooks                             *)
(***************************************************************************)
Dispatched == req.pc # "idle"

\* the payload's action is one the handler acts on
ActionHandled ==
    CASE req.handler = "handleReviewComment" -> req.action = "created"
      [] req.handler = "handleIssue" ->
            \/ req.action \in {"opened", "edited"}
            \/ req.action = "created" /\ HasComment(req.eventType)
      [] req.handler = "handlePullRequest" -> req.action \in {"opened", "synchronize"}
      [] OTHER -> FALSE

\* the text the handler searches exists and holds no @ai-helper mention
NotMentioned ==
    /\ req.handler \in {"handleReviewComment", "handleIssue"}
    /\ req.handler = "handleReviewComment" => HasComment(req.eventType)
    /\ ~AiHelperMentioned(req.text)

\* PR handler: the repository name or one of the branch names is malformed
NamesMalformed ==
    /\ req.handler = "handlePullRequest"
    /\ \/ ~PrRepoNameRegex(req.fullName)
       \/ ~PrBranchNameRegex(req.base)
       \/ ~PrBranchNameRegex(req.branch)

NoSideEffects ==
    /\ req.created = {} /\ req.removed = {} /\ req.path = <<>>
    /\ req.cmds = <<>> /\ req.exits = <<>>
    /\ req.timersSet = 0 /\ req.listenersAdded = 0

\* C34: a webhook handed to a handler whose action the handler does not act
\* on, or whose text holds no @ai-helper mention, is answered 200 as
\* ignored, and a pull_request webhook with a malformed repository or branch
\* name is answered 400, in both cases without a workspace created, a
\* provider probed, a subprocess spawned, or a timer or host listener
\* registered; and nothing of this happens later for that request.
C34_IgnoredOrRejectedHasNoSideEffects ==
    (Dispatched /\ req.handler # "none") =>
        /\ (~ActionHandled \/ NotMentioned) =>
              req.pc = "ignored" /\ req.response = 200 /\ NoSideEffects
        /\ (ActionHandled /\ NamesMalformed) =>
              req.pc = "rejected" /\ req.response = 400 /\ NoSideEffects
        /\ req.pc \in {"ignored", "rejected"} => NoSideEffects

\* a created review comment whose text holds "x@ai-helper", which is no
\* mention, was answered 200 with nothing started
C34_Witness ==
    /\ req.pc = "ignored" /\ req.eventType = "pull_request_review_comment"
    /\ req.action = "created" /\ req.text = <<"x", "@ai-helper">>
    /\ req.response = 200 /\ req.message = "AI helper not mentioned"
    /\ NoSideEffects

(***************************************************************************)
(* Properties of the dispatch of review events                             *)
(***************************************************************************)
\* C38: pull_request_review events go to the same handler as
\* pull_request_review_comment events, handleReviewComment; a review event
\* with action 'submitted' is therefore answered 200 'Event ignored' with
\* nothing started, even when the review mentions @ai-helper; no request is
\* ever handed to handlePullRequestReview and no general-review task starts.
C38_ReviewEventsGoToCommentHandler ==
    Dispatched =>
        /\ req.eventType \in {"pull_request_review", "pull_request_review_comment"} =>
              req.handler = "handleReviewComment"
        /\ (req.eventType = "pull_request_review" /\ req.action = "submitted") =>
              /\ req.pc = "ignored" /\ req.response = 200
              /\ req.message = "Event ignored"
              /\ req.created = {} /\ req.cmds = <<>>
        /\ req.handler # "handlePullRequestReview"
        /\ req.kind # "review"

\* a submitted review that mentions @ai-helper was ignored
C38_Witness ==
    /\ req.pc = "ignored" /\ req.eventType = "pull_request_review"
    /\ req.action = "submitted" /\ req.text = <<"@ai-helper">>
    /\ req.handler = "handleReviewComment" /\ req.message = "Event ignored"

(***************************************************************************)
(* Properties of the isolation of tasks                                    *)
(***************************************************************************)
\* C35 (as claimed): a step in which the timer or the close event of one
\* task runs that task's cleanup leaves every other task as it was: its
\* child, timer and cleanup flag unchanged, its workspace still there if it
\* was there, its host listeners still registered.
C35_CleanupLeavesOtherTasksUnchanged ==
    [][\A t \in Tasks :
          (TimeoutFire(t) \/ ChildClose(t)) =>
              \A u \in Tasks \ {t} :
                  /\ tasks'[u] = tasks[u]
                  /\ tasks[u].path \in fs => tasks'[u].path \in fs'
                  /\ \A ev \in HostEvents :
                        InstancesOf(listeners'[ev], u) = InstancesOf(listeners[ev], u)]_vars

(***************************************************************************)
(* Properties of the subprocesses GeminiProvider.execute leaves behind     *)
(***************************************************************************)
\* execute has returned a handle or thrown
GemDone == gem.pc \in {"returned", "failed"}

\* attempt a is the one whose handle execute returned
Returned(a) == gem.pc = "returned" /\ gem.result = a

\* C36: once Gemini execute has returned or thrown, every subprocess it
\* spawned other than the returned one has failed to spawn, has exited, or
\* has been sent a termination signal; a call spawns each model at most once,
\* so at most two subprocesses; and the provider never makes a kill call on
\* the subprocess whose handle it returned, whatever that subprocess writes
\* or does afterwards.
C36_NoUnsignalledChildLeftBehind ==
    /\ \A a \in 1..2 :
          (GemDone /\ Spawned(a) /\ ~Returned(a)) =>
              \/ gem.att[a].proc \in {"errored", "exited"}
              \/ gem.att[a].sigterms >= 1
    /\ SpawnsOf(1) + SpawnsOf(2) <= 2
    /\ \A a \in 1..2 :
          Returned(a) => gem.att[a].killCalls = 0 /\ gem.att[a].sigterms = 0

\* the primary was rejected for a failure signature and signalled, it has not
\* exited yet, and execute returned the fallback's handle, which then wrote a
\* failure signature itself and was left alone
C36_Witness ==
    /\ gem.pc = "returned" /\ gem.result = 2
    /\ gem.att[1].proc = "running" /\ gem.att[1].sigterms = 1
    /\ HasFailureSignature(gem.att[2].stderrBuffer)
    /\ gem.att[2].proc = "running" /\ gem.att[2].killCalls = 0

(***************************************************************************)
(* Properties of the timeout timer after cleanup                           *)
(***************************************************************************)
\* C37: cleanup does not cancel the timeout timer.  A delivery of SIGINT or
\* SIGTERM that cleans a task up leaves its timer armed; and when the timer
\* of a task that is already cleaned up fires, nothing changes but the
\* timer: no kill call, no signal, no workspace removal, no listener
\* deregistration, no warning.
C37_TimerSurvivesCleanupAndFiresIdle ==
    [][\A t \in Tasks :
          /\ ((\E sig \in Signals : Signal(sig))
                /\ ~tasks[t].isCleanedUp /\ tasks'[t].isCleanedUp) =>
                 tasks[t].timer = "armed" /\ tasks'[t].timer = "armed"
          /\ (TimeoutFire(t) /\ tasks[t].isCleanedUp) =>
                 /\ tasks'[t] = [tasks[t] EXCEPT !.timer = "fired"]
                 /\ fs' = fs
                 /\ listeners' = listeners]_vars

\* a host signal cleaned the task up while its child was running, the host
\* stayed up, and the timer fired afterwards: still one kill call, one
\* removal and one deregistration
C37_Witness ==
    \E t \in Tasks :
        /\ host = "up" /\ CalledIn(lastEmit, t)
        /\ tasks[t].isCleanedUp /\ tasks[t].timer = "fired"
        /\ tasks[t].child = "running"
        /\ tasks[t].killCalls = 1 /\ tasks[t].rmCalls = 1 /\ tasks[t].offCalls = 1

\* ---------------------------------------------------------------------------
\* ClaudeCodeCLI: one execute call, its child process, timer and promise
\* ---------------------------------------------------------------------------

\* most data chunks one stream of the child delivers
MaxCliChunks == 2

\* the timeout used when options.timeout is missing or 0
ClaudeDefaultTimeout == 300000

\* options.timeout as callers pass it: 0 stands for a missing option;
\* checkAvailability passes 5000
CliTimeoutOptions == {0, 5000}

\* the code a 'close' event carries; "null" is a child ended by a signal
CliExitCodes == {"0", "1", "null"}

\* what child.kill does to a child that has not exited: the signal is
\* delivered, or the call fails and the child emits 'error'
CliKillOutcomes == {"delivered", "failed"}

CliNoResult == [success |-> FALSE, output |-> <<>>, error |-> "no result"]

\* resolve({stdout, stderr}) followed by the try branch of execute
CliResolveOverwrites(c) ==
    [c EXCEPT !.settled = "resolved",
              !.pc = "returned",
              !.returns = @ + 1,
              !.result = [success |-> TRUE, output |-> c.stdout, error |-> "none"]]

CliResolve(c) ==
    IF c.settled # "pending"
       THEN c
       ELSE [c EXCEPT !.settled = "resolved",
                      !.pc = "returned",
                      !.returns = @ + 1,
                      !.result = [success |-> TRUE, output |-> c.stdout, error |-> "none"]]

\* reject(error) followed by the catch branch of execute
CliReject(c, message) ==
    IF c.settled # "pending"
       THEN c
       ELSE [c EXCEPT !.settled = "rejected",
                      !.pc = "returned",
                      !.returns = @ + 1,
                      !.result = [success |-> FALSE, output |-> <<>>, error |-> message]]

\* the 'close' listener
CliOnClose(c, code) ==
    LET c1 == [c EXCEPT !.proc = "closed", !.closeCode = code,
                        !.timer = ClearTimeout(@)]
    IN  IF code = "0"
           THEN CliResolve(c1)
           ELSE CliReject(c1, "Command failed with code")

\* the 'error' listener
CliOnError(c, message) ==
    CliReject([c EXCEPT !.timer = ClearTimeout(@)], message)

\* the timer callback: child.kill('SIGTERM'), then reject
CliOnTimeout(c, outcome) ==
    LET c1 == [c EXCEPT !.timer = "fired", !.killCalls = @ + 1, !.atTimeout = c.proc]
        c2 == IF c.proc # "running"
                 THEN c1
                 ELSE IF outcome = "delivered"
                         THEN [c1 EXCEPT !.sigterms = @ + 1]
                         ELSE CliOnError([c1 EXCEPT !.killFailed = TRUE], "kill failed")
    IN  CliReject(c2, "Command timed out")

\* execute is called: the child is spawned, the listeners are attached and
\* the timer is armed; a failed spawn is reported by 'error' on the next tick
CliExecute ==
    /\ cli.pc = "idle"
    /\ \E option \in CliTimeoutOptions, spawned \in BOOLEAN :
          LET c0 == [pc |-> "awaiting",
                     timeout |-> IF option = 0 THEN ClaudeDefaultTimeout ELSE option,
                     proc |-> "running", closeCode |-> "none",
                     timer |-> "armed", atTimeout |-> "none",
                     settled |-> "pending", returns |-> 0, result |-> CliNoResult,
                     stdout |-> <<>>, stderr |-> <<>>,
                     killCalls |-> 0, sigterms |-> 0, killFailed |-> FALSE]
          IN  cli' = IF spawned
                        THEN c0
                        ELSE CliOnError([c0 EXCEPT !.proc = "errored"], "spawn failed")
    /\ UNCHANGED <<tasks, fs, listeners, lastEmit, now, host, config, gem, factory, req, mw>>

\* the child writes to stdout
CliStdout ==
    /\ cli.pc # "idle"
    /\ cli.proc \in {"running", "exited"}
    /\ Len(cli.stdout) < MaxCliChunks
    /\ cli' = [cli EXCEPT !.stdout = Append(@, "out")]
    /\ UNCHANGED <<tasks, fs, listeners, lastEmit, now, host, config, gem, factory, req, mw>>

\* the child writes to stderr
CliStderr ==
    /\ cli.pc # "idle"
    /\ cli.proc \in {"running", "exited"}
    /\ Len(cli.stderr) < MaxCliChunks
    /\ cli' = [cli EXCEPT !.stderr = Append(@, "err")]
    /\ UNCHANGED <<tasks, fs, listeners, lastEmit, now, host, config, gem, factory, req, mw>>

\* the child process ends; its streams may still be open, and nothing
\* listens for 'exit'
CliExit ==
    /\ cli.pc # "idle"
    /\ cli.proc = "running"
    /\ \E code \in CliExitCodes :
          cli' = [cli EXCEPT !.proc = "exited", !.closeCode = code]
    /\ UNCHANGED <<tasks, fs, listeners, lastEmit, now, host, config, gem, factory, req, mw>>

\* the streams of an ended child are closed: 'close' is emitted with the
\* exit code, a negative one after a failed spawn
CliClose ==
    /\ cli.pc # "idle"
    /\ cli.proc \in {"exited", "errored"}
    /\ cli' = CliOnClose(cli, IF cli.proc = "errored" THEN "-2" ELSE cli.closeCode)
    /\ UNCHANGED <<tasks, fs, listeners, lastEmit, now, host, config, gem, factory, req, mw>>

\* the armed timer fires
CliTimeout ==
    /\ cli.pc # "idle"
    /\ cli.timer = "armed"
    /\ \E outcome \in CliKillOutcomes : cli' = CliOnTimeout(cli, outcome)
    /\ UNCHANGED <<tasks, fs, listeners, lastEmit, now, host, config, gem, factory, req, mw>>

NextCli == CliExecute \/ CliStdout \/ CliStderr \/ CliExit \/ CliClose \/ CliTimeout

SpecCli == Init /\ [][NextCli]_vars

\* C39: a started execute call is waiting with its timer armed or has
\* returned its one result, and never throws; the result says success exactly
\* when 'close' carried code 0 and the timer had not fired; once the timer
\* fired, one kill call has been made, a child that had not exited got the
\* one SIGTERM (unless the call failed), the result says failure, and a later
\* 'close' or 'error' leaves it at that
C39_ExecuteResolvesOnceWithTheFirstOutcome ==
    cli.pc # "idle" =>
       /\ cli.pc \in {"awaiting", "returned"}
       /\ cli.pc = "awaiting" => (cli.timer = "armed" /\ cli.returns = 0)
       /\ cli.pc = "returned" => cli.returns = 1
       /\ (cli.proc = "closed" \/ cli.timer = "fired") => cli.pc = "returned"
       /\ cli.pc = "returned" =>
             (cli.result.success <=>
                 (cli.proc = "closed" /\ cli.closeCode = "0" /\ cli.timer # "fired"))
       /\ cli.timer # "fired" => (cli.killCalls = 0 /\ cli.sigterms = 0)
       /\ cli.timer = "fired" =>
             /\ cli.killCalls = 1
             /\ cli.sigterms =
                   IF cli.atTimeout = "running" /\ ~cli.killFailed THEN 1 ELSE 0
             /\ ~cli.result.success

\* the timer fired on a running child, which then ended with code 0 and closed
C39_Witness ==
    /\ cli.pc = "returned"
    /\ cli.timer = "fired"
    /\ cli.sigterms = 1
    /\ cli.proc = "closed"
    /\ cli.closeCode = "0"
    /\ cli.result = [success |-> FALSE, output |-> <<>>, error |-> "Command timed out"]

====
